---- MODULE Spec2Model ----
(***************************************************************************)
(* A model of libbayer: the CFA phase algebra (bayer.rs), the raster view  *)
(* over a caller-owned byte buffer (raster.rs), the sample readers and     *)
(* border strategies (bayer.rs, border_*.rs) and the four demosaicing      *)
(* algorithms in their sequential and rayon builds (demosaic/*.rs).        *)
(*                                                                         *)
(* usize is modelled UsizeBits wide: TLC's integers are 32 bit, so the     *)
(* 64 bit word of the real build is scaled down and every checked_add and  *)
(* checked_mul overflows at UsizeMax instead of at 2^64 - 1.               *)
(*                                                                         *)
(* Byte offsets are the code's (0-based); a buffer is a TLA+ sequence, so  *)
(* the byte at offset o is buf[o + 1].                                     *)
(***************************************************************************)
EXTENDS Integers, Sequences, FiniteSets, TLC

VARIABLES
    \* ---- CFA phase walk (bayer.rs)
    phase0,     \* the phase the walk starts from
    trail,      \* the phases visited, trail[1] = phase0
    steps,      \* the operations applied: "x" (next_x) or "y" (next_y)
    \* ---- raster construction and row borrowing (raster.rs)
    ctor,       \* the last constructor call: its arguments and whether it panicked
    slice,      \* the last row borrow: its request and the slice it returned
    nwrites,    \* writes done through borrowed slices
    \* ---- shared by the raster and the decode specifications
    view,       \* the RasterMut: [x, y, w, h, stride, depth], or NoView
    buf,        \* the caller's byte buffer the view borrows
    hostBE,     \* the build's native byte order is big-endian
    \* ---- one decode call (lib.rs, demosaic/*.rs)
    alg,        \* Demosaic
    cfa0,       \* the CFA argument: the phase of the top-left sample
    bdepth,     \* BayerDepth
    stream,     \* the bytes the reader r will deliver
    mode,       \* "seq": build without rayon; "par": build with feature rayon
    pc,         \* position in the call
    pos,        \* bytes consumed from the stream
    win,        \* the sliding window's row buffers (sequential build)
    yrow,       \* the loop variable y
    cfa,        \* the local cfa, stepped down once per row
    data,       \* the padded whole-frame buffer (rayon build)
    pending,    \* chunks of par_chunks_mut whose task has not run
    panicked,   \* a row task has panicked
    result,     \* the call's outcome
    saved,      \* outcome of the sequential call, kept for the rayon call
    \* ---- one border reader and one read_line (border_*.rs)
    binput,     \* the caller's choices: [kind, width, padding, depth, stream, checks]
    border,     \* the tuple struct new returned: [x1, x2, x3], Panic, or Nil before new
    row,        \* the row buffer dst handed to read_line
    rpos,       \* bytes read_line has consumed from binput.stream
    rres,       \* what read_line returned
    \* ---- one call through the C interface (ffi.rs)
    cargs,      \* the C caller's arguments: [srcNull, dstNull, depth, be, cfa]
    cret        \* the c_uint the call returned; Pending before it returns

cfaVars    == <<phase0, trail, steps>>
rasterVars == <<ctor, slice, nwrites>>
sharedVars == <<view, buf, hostBE>>
inputVars  == <<alg, cfa0, bdepth, stream>>
execVars   == <<mode, pc, pos, win, yrow, cfa, data, pending, panicked, result, saved>>
decodeVars == <<inputVars, execVars>>
borderVars == <<binput, border, row, rpos, rres>>
ffiVars    == <<cargs, cret>>
vars       == <<cfaVars, rasterVars, sharedVars, decodeVars, borderVars, ffiVars>>

(***************************************************************************)
(* Bounds of the model.                                                    *)
(***************************************************************************)
UsizeBits      == 8   \* width of the modelled usize
MaxSteps       == 5   \* length of a phase walk
MaxCoord       == 1   \* constructor origins tried: 0..MaxCoord and UsizeMax
MaxSide        == 2   \* constructor sizes tried: 0..MaxSide, WrapSide, UsizeMax
MaxStrideUnits == 4   \* constructor strides tried: 3*k, k in 0..MaxStrideUnits
MaxBufRows     == 3   \* buffer lengths tried: 12*k, k in 0..MaxBufRows, and 1
MaxWrites      == 1   \* writes through borrowed slices in one run
MaxDim         == 4   \* decoded rasters are 1..MaxDim wide and high
MaxExtra       == 1   \* size of the departure of a decode from the plain call
MaxWidth       == 5   \* border readers are made for widths 0..MaxWidth and UsizeMax
MaxPadding     == 3   \* and paddings 0..MaxPadding
MaxFrameSide   == 7   \* whole calls decode frames up to MaxFrameSide wide and high
MaxCode        == 4   \* C callers pass be and cfa codes up to MaxCode

UsizeMax == 2^UsizeBits - 1

Unset == "unset"              \* no value yet
Panic == [tag |-> "panic"]     \* a failed assert or expect, or an index out of range
Nil   == [tag |-> "nil"]       \* Rust's Option::None; also: no call made yet
Overflow == 0 - 1              \* what checked_add and checked_mul give on overflow

(***************************************************************************)
(* bayer.rs: the CFA pattern.                                              *)
(***************************************************************************)
CFASet == {"BGGR", "GBRG", "GRBG", "RGGB"}

next_x_SwappedArm(c) ==
    CASE c = "BGGR" -> "GBRG"
      [] c = "GBRG" -> "BGGR"
      [] c = "GRBG" -> "GRBG"
      [] c = "RGGB" -> "GRBG"

next_x(c) ==
    CASE c = "BGGR" -> "GBRG"
      [] c = "GBRG" -> "BGGR"
      [] c = "GRBG" -> "RGGB"
      [] c = "RGGB" -> "GRBG"

next_y_AsNextX(c) ==
    CASE c = "BGGR" -> "GBRG"
      [] c = "GBRG" -> "BGGR"
      [] c = "GRBG" -> "RGGB"
      [] c = "RGGB" -> "GRBG"

next_y(c) ==
    CASE c = "BGGR" -> "GRBG"
      [] c = "GBRG" -> "RGGB"
      [] c = "GRBG" -> "BGGR"
      [] c = "RGGB" -> "GBRG"

(***************************************************************************)
(* raster.rs: RasterDepth, RasterMut.                                      *)
(***************************************************************************)
RasterDepths == {"Depth8", "Depth16"}

bytes_per_pixel(depth) == IF depth = "Depth8" THEN 3 ELSE 6

\* usize::checked_add, usize::checked_mul: Overflow stands for Option::None.
checked_add(a, b) == IF a + b > UsizeMax THEN Overflow ELSE a + b

checked_mul_Wrapping(a, b) == (a * b) % (UsizeMax + 1)

checked_mul(a, b) == IF a * b > UsizeMax THEN Overflow ELSE a * b

NoView == Nil

IsView(v) == v # NoView /\ v # Panic

\* with_offset on a buffer of len bytes: the RasterMut, or Panic when an
\* expect("overflow") or an assert fails.
with_offset_NoRowFit(x, y, w, h, stride, depth, len) ==
    LET x1  == checked_add(x, w)
        y1  == checked_add(y, h)
        bpp == bytes_per_pixel(depth)
    IN  IF x1 = Overflow \/ y1 = Overflow THEN Panic
        ELSE IF ~(x < x1) THEN Panic
        ELSE IF checked_mul(x1, bpp) = Overflow THEN Panic
        ELSE IF ~(h > 0) THEN Panic
        ELSE IF checked_mul(stride, y1) = Overflow THEN Panic
        ELSE IF ~(checked_mul(stride, y1) <= len) THEN Panic
        ELSE IF stride % bpp # 0 THEN Panic
        ELSE [x |-> x, y |-> y, w |-> w, h |-> h, stride |-> stride, depth |-> depth]

with_offset(x, y, w, h, stride, depth, len) ==
    LET x1  == checked_add(x, w)
        y1  == checked_add(y, h)
        bpp == bytes_per_pixel(depth)
    IN  IF x1 = Overflow \/ y1 = Overflow THEN Panic
        ELSE IF ~(x < x1) THEN Panic
        ELSE IF checked_mul(x1, bpp) = Overflow THEN Panic
        ELSE IF ~(checked_mul(x1, bpp) <= stride /\ h > 0) THEN Panic
        ELSE IF checked_mul(stride, y1) = Overflow THEN Panic
        ELSE IF ~(checked_mul(stride, y1) <= len) THEN Panic
        ELSE IF stride % bpp # 0 THEN Panic
        ELSE [x |-> x, y |-> y, w |-> w, h |-> h, stride |-> stride, depth |-> depth]

RasterMut_new(w, h, depth, len) ==
    LET stride == checked_mul(w, bytes_per_pixel(depth))
    IN  IF stride = Overflow THEN Panic
        ELSE with_offset(0, 0, w, h, stride, depth, len)

\* A borrowed row: the byte offset it starts at, its number of elements and
\* the bytes per element; Panic when an assert fails.
borrow_row_u8_mut_NoOrigin(v, y) ==
    IF v.depth # "Depth8" \/ ~(y < v.h) THEN Panic
    ELSE [start |-> v.stride * y, n |-> 3 * v.w, width |-> 1]

borrow_row_u8_mut(v, y) ==
    IF v.depth # "Depth8" THEN Panic
    ELSE IF ~(y < v.h) THEN Panic
    ELSE LET start == v.stride * (v.y + y) + 3 * v.x
             end   == start + 3 * v.w
         IN  [start |-> start, n |-> end - start, width |-> 1]

borrow_row_u16_mut(v, y) ==
    IF v.depth # "Depth16" THEN Panic
    ELSE IF ~(y < v.h) THEN Panic
    ELSE LET start == v.stride * (v.y + y) + 6 * v.x
         IN  [start |-> start, n |-> 3 * v.w, width |-> 2]

\* The bytes of a u16 in the build's native order.
NativeBytes(v, be) ==
    IF be THEN <<v \div 256, v % 256>> ELSE <<v % 256, v \div 256>>

\* row[k] = v for a borrowed row s: the bytes of b after the store.
StoreElem(b, s, k, v, be) ==
    IF s.width = 1
    THEN [b EXCEPT ![s.start + k + 1] = v]
    ELSE [b EXCEPT ![s.start + 2 * k + 1] = NativeBytes(v, be)[1],
                   ![s.start + 2 * k + 2] = NativeBytes(v, be)[2]]

\* What the caller's buffer holds before the library touches it.
PriorByte(o) == (o * 29 + 7) % 256

PriorBuf(len) == [i \in 1..len |-> PriorByte(i - 1)]

(***************************************************************************)
(* bayer.rs: BayerDepth and the sample readers.  A reader call on stream s *)
(* at position p for n samples gives [ok, vals, pos]; a source exhausted   *)
(* before the destination is full is an Io error, and read_exact has then  *)
(* consumed what was left.                                                 *)
(***************************************************************************)
BayerDepths == {"Depth8", "Depth16BE", "Depth16LE"}

Algs == {"None", "NearestNeighbour", "Linear", "Cubic"}

IoErr(s) == [ok |-> FALSE, vals |-> <<>>, pos |-> Len(s)]

\* A reader that calls read where the code calls read_exact: a short read succeeds.
read_exact_u8_ShortOk(s, p, n) ==
    IF p + n > Len(s)
    THEN [ok |-> TRUE,
          vals |-> [i \in 1..n |-> IF p + i <= Len(s) THEN s[p + i] ELSE 0],
          pos |-> Len(s)]
    ELSE [ok |-> TRUE, vals |-> [i \in 1..n |-> s[p + i]], pos |-> p + n]

read_exact_u8(s, p, n) ==
    IF p + n > Len(s) THEN IoErr(s)
    ELSE [ok |-> TRUE, vals |-> [i \in 1..n |-> s[p + i]], pos |-> p + n]

read_exact_u16be(s, p, n) ==
    IF p + 2 * n > Len(s) THEN IoErr(s)
    ELSE [ok |-> TRUE,
          vals |-> [i \in 1..n |-> 256 * s[p + 2 * i - 1] + s[p + 2 * i]],
          pos |-> p + 2 * n]

\* A little-endian reader that assembles the pair as the big-endian one does.
read_exact_u16le_AsBE(s, p, n) ==
    IF p + 2 * n > Len(s) THEN IoErr(s)
    ELSE [ok |-> TRUE,
          vals |-> [i \in 1..n |-> 256 * s[p + 2 * i - 1] + s[p + 2 * i]],
          pos |-> p + 2 * n]

read_exact_u16le(s, p, n) ==
    IF p + 2 * n > Len(s) THEN IoErr(s)
    ELSE [ok |-> TRUE,
          vals |-> [i \in 1..n |-> s[p + 2 * i - 1] + 256 * s[p + 2 * i]],
          pos |-> p + 2 * n]

\* The reader the border structs of depth bd call.
read_exact(bd, s, p, n) ==
    CASE bd = "Depth8"    -> read_exact_u8(s, p, n)
      [] bd = "Depth16BE" -> read_exact_u16be(s, p, n)
      [] bd = "Depth16LE" -> read_exact_u16le(s, p, n)

(***************************************************************************)
(* border_none.rs, border_replicate.rs, border_mirror.rs.  A border is the *)
(* tuple struct (x1, x2, x3), or Panic when new's assert fails; a row      *)
(* buffer dst is a sequence, dst[j + 1] the cell the code calls dst[j].    *)
(***************************************************************************)
At(r, j) == r[j + 1]

\* The largest sample a stream can hold.
MaxSample == 2^16 - 1

BorderReplicate_new(width, padding) ==
    LET x1 == padding
        x2 == checked_add(x1, width)
        x3 == IF x2 = Overflow THEN Overflow ELSE checked_add(x2, padding)
    IN  IF x2 = Overflow \/ x3 = Overflow THEN Panic
        ELSE IF ~(width >= 2) THEN Panic
        ELSE [x1 |-> x1, x2 |-> x2, x3 |-> x3]

BorderMirror_new(width, padding) ==
    LET x1 == padding
        x2 == checked_add(x1, width)
        x3 == IF x2 = Overflow THEN Overflow ELSE checked_add(x2, padding)
    IN  IF x2 = Overflow \/ x3 = Overflow THEN Panic
        ELSE IF ~(width > padding) THEN Panic
        ELSE [x1 |-> x1, x2 |-> x2, x3 |-> x3]

\* A row buffer while fill_row! runs on it: [ok, row], ok false once an
\* index outside 0..dst.len()-1 has been used (the slice index panics).
InRow(st, j) == j >= 0 /\ j < Len(st.row)

Put(st, i, v) ==
    IF st.ok /\ InRow(st, i) THEN [ok |-> TRUE, row |-> [st.row EXCEPT ![i + 1] = v]]
    ELSE [ok |-> FALSE, row |-> st.row]

\* dst[i] = dst[j]
Copy(st, i, j) ==
    IF InRow(st, j) THEN Put(st, i, At(st.row, j)) ELSE [ok |-> FALSE, row |-> st.row]

\* The pair written the other way round.
RECURSIVE replicate_left_Swapped(_, _, _, _, _)
replicate_left_Swapped(st, i, x1, r0, g0) ==
    IF i < x1
    THEN replicate_left_Swapped(Put(Put(st, i, g0), i + 1, r0), i + 2, x1, r0, g0)
    ELSE st

\* fill_row! of border_replicate.rs, left border: while i < x1 { .. i += 2 }
RECURSIVE replicate_left(_, _, _, _, _)
replicate_left(st, i, x1, r0, g0) ==
    IF i < x1 THEN replicate_left(Put(Put(st, i, r0), i + 1, g0), i + 2, x1, r0, g0)
    ELSE st

\* The loop without the single cell an odd padding leaves.
RECURSIVE replicate_right_NoOddCell(_, _, _, _, _)
replicate_right_NoOddCell(st, i, x3, r0, g0) ==
    IF i + 1 < x3
    THEN replicate_right_NoOddCell(Put(Put(st, i, r0), i + 1, g0), i + 2, x3, r0, g0)
    ELSE st

\* right border: while i + 1 < x3 { .. i += 2 }; if i == x3 - 1 { dst[i] = r0 }
RECURSIVE replicate_right(_, _, _, _, _)
replicate_right(st, i, x3, r0, g0) ==
    IF i + 1 < x3 THEN replicate_right(Put(Put(st, i, r0), i + 1, g0), i + 2, x3, r0, g0)
    ELSE IF i = x3 - 1 THEN Put(st, i, r0)
    ELSE st

fill_row_replicate(st, x1, x2, x3) ==
    IF ~InRow(st, x1 + 1) \/ ~InRow(st, x2 - 2) \/ ~InRow(st, x2 - 1)
    THEN [ok |-> FALSE, row |-> st.row]
    ELSE LET odd  == x1 % 2 = 1
             left == replicate_left(IF odd THEN Put(st, 0, At(st.row, x1 + 1)) ELSE st,
                                    IF odd THEN 1 ELSE 0, x1,
                                    At(st.row, x1), At(st.row, x1 + 1))
         IN  replicate_right(left, x2, x3, At(left.row, x2 - 2), At(left.row, x2 - 1))

\* fill_row! of border_mirror.rs, left border: while i > 0 { dst[i-1] = dst[j]; .. }
RECURSIVE mirror_left(_, _, _)
mirror_left(st, i, j) ==
    IF i > 0 THEN mirror_left(Copy(st, i - 1, j), i - 1, j + 1) ELSE st

\* A reflection that repeats the edge sample.
RECURSIVE mirror_right_RepeatEdge(_, _, _, _)
mirror_right_RepeatEdge(st, i, j, x3) ==
    IF i < x3 THEN mirror_right_RepeatEdge(Copy(st, i, j + 1), i + 1, j - 1, x3) ELSE st

\* right border: while i < x3 { dst[i] = dst[j]; i = i + 1; j = j - 1 }
RECURSIVE mirror_right(_, _, _, _)
mirror_right(st, i, j, x3) ==
    IF i < x3 THEN mirror_right(Copy(st, i, j), i + 1, j - 1, x3) ELSE st

\* j = x2 - 2 is a usize subtraction: below 0 it panics in a build with
\* overflow checks and wraps in one without (j is then never used).
fill_row_mirror(st, x1, x2, x3, checks) ==
    LET left == mirror_left(st, x1, x1 + 1)
    IN  IF x2 < 2 /\ checks THEN [ok |-> FALSE, row |-> left.row]
        ELSE mirror_right(left, x2, x2 - 2, x3)

\* The row after read_exact has stored raw in cells x1..x2-1 of a fresh row
\* and fill_row! has run.
replicate_fill_row(raw, b) ==
    fill_row_replicate([ok |-> TRUE,
                        row |-> [k \in 1..b.x3 |->
                                   IF k > b.x1 /\ k <= b.x2 THEN raw[k - b.x1] ELSE 0]],
                       b.x1, b.x2, b.x3).row

mirror_fill_row(raw, b) ==
    fill_row_mirror([ok |-> TRUE,
                     row |-> [k \in 1..b.x3 |->
                                IF k > b.x1 /\ k <= b.x2 THEN raw[k - b.x1] ELSE 0]],
                    b.x1, b.x2, b.x3, FALSE).row

\* read_line of the border the algorithm uses: [ok, vals, pos], vals the
\* whole row of x3 cells.
BorderKind(a) ==
    CASE a = "None" -> "none"
      [] a = "NearestNeighbour" -> "replicate"
      [] a = "Linear" -> "replicate"
      [] a = "Cubic" -> "mirror"

\* The samples a failed read_exact leaves in its buffer are unspecified.
Unspecified == MaxSample + 1

\* read_line(r, dst) of a border struct b: [res, row, pos].  The slice
\* dst[x1..x2] panics when dst is shorter than x2.
read_line_into(kind, b, bd, s, p, dst, checks) ==
    IF b.x2 > Len(dst) THEN [res |-> "panic", row |-> dst, pos |-> p]
    ELSE LET rd   == read_exact(bd, s, p, b.x2 - b.x1)
             cell == [k \in 1..Len(dst) |-> k > b.x1 /\ k <= b.x2]
             got  == [ok |-> TRUE,
                      row |-> [k \in 1..Len(dst) |->
                                 IF cell[k] THEN rd.vals[k - b.x1] ELSE dst[k]]]
             fill == CASE kind = "none"      -> got
                       [] kind = "replicate" -> fill_row_replicate(got, b.x1, b.x2, b.x3)
                       [] kind = "mirror"    -> fill_row_mirror(got, b.x1, b.x2, b.x3, checks)
         IN  IF ~rd.ok
             THEN [res |-> "Io", pos |-> rd.pos,
                   row |-> [k \in 1..Len(dst) |-> IF cell[k] THEN Unspecified ELSE dst[k]]]
             ELSE [res |-> IF fill.ok THEN "Ok" ELSE "panic", row |-> fill.row,
                   pos |-> rd.pos]

\* read_line into a row of x3 cells, as debayer calls it: [ok, vals, pos].
\* A read_line that leaves the stream where it was: the next call reads
\* the same row again.
read_line_Rewound(kind, b, bd, s, p) ==
    LET rd == read_exact(bd, s, p, b.x2 - b.x1)
    IN  IF ~rd.ok THEN rd
        ELSE [ok |-> TRUE, pos |-> p,
              vals |-> CASE kind = "none"      -> rd.vals
                         [] kind = "replicate" -> replicate_fill_row(rd.vals, b)
                         [] kind = "mirror"    -> mirror_fill_row(rd.vals, b)]

read_line(kind, b, bd, s, p) ==
    LET rd == read_exact(bd, s, p, b.x2 - b.x1)
    IN  IF ~rd.ok THEN rd
        ELSE [rd EXCEPT !.vals =
                CASE kind = "none"      -> rd.vals
                  [] kind = "replicate" -> replicate_fill_row(rd.vals, b)
                  [] kind = "mirror"    -> mirror_fill_row(rd.vals, b)]

(***************************************************************************)
(* demosaic/*.rs: the kernels.  apply_kernel_row! gives the 3*w channel    *)
(* values it leaves in the borrowed row; every algorithm stores all of     *)
(* them (None zero-fills the row first).                                   *)
(***************************************************************************)
PaddingOf(a) ==
    CASE a = "None" -> 0
      [] a = "NearestNeighbour" -> 1
      [] a = "Linear" -> 1
      [] a = "Cubic" -> 3

\* T::max_value() of the channel type of a sample depth.
MaxValue(bd) == IF bd = "Depth8" THEN 255 ELSE 65535

\* `as $T`: the narrowing cast keeps the low bits.
AsT(v, bd) == v % (MaxValue(bd) + 1)

Min(a, b) == IF a < b THEN a ELSE b

\* The distance from a to b, in place of the clamped difference.
saturating_sub_Abs(a, b) == IF a >= b THEN a - b ELSE b - a

\* u32::saturating_sub
saturating_sub(a, b) == IF a >= b THEN a - b ELSE 0

\* The pixel with row[3*i + c] = vc, row[3*i + 1] = vg, row[3*i + d] = vd.
Pixel(c, vc, vg, d, vd) ==
    [k \in 1..3 |-> IF k - 1 = c THEN vc ELSE IF k - 1 = 1 THEN vg ELSE vd]

\* The row of w pixels px[1..w] as 3*w channel values.
RowOf(px, w) == [k \in 1..(3 * w) |-> px[((k - 1) \div 3) + 1][((k - 1) % 3) + 1]]

\* The loop of apply_kernel_row! in none.rs, linear.rs and cubic.rs: on a
\* row starting at a colour site the c kernel runs at i = 0, 2, .. with
\* cfa_c = cfa and the g kernel at i = 1, 3, .. with cfa_g = cfa.next_x(); on
\* a row starting at a green site the g kernel runs at i = 0, then the c
\* kernel at i = 1, 3, .. with cfa_c = cfa.next_x() and the g kernel at
\* i = 2, 4, .. with cfa_g = cfa.
SiteAt(c, i) ==
    IF c = "BGGR" \/ c = "RGGB"
    THEN IF i % 2 = 0 THEN [kind |-> "c", cfa |-> c]
                      ELSE [kind |-> "g", cfa |-> next_x(c)]
    ELSE IF i = 0 THEN [kind |-> "g", cfa |-> c]
         ELSE IF (i - 1) % 2 = 0 THEN [kind |-> "c", cfa |-> next_x(c)]
                                 ELSE [kind |-> "g", cfa |-> c]

\* The loop of apply_kernel_row! in nearestneighbour.rs: cfa_x starts at cfa
\* and is stepped right after every pixel.
RECURSIVE CfaX(_, _)
CfaX(c, i) == IF i = 0 THEN c ELSE next_x(CfaX(c, i - 1))

NNSiteAt(c, i) ==
    LET cx == CfaX(c, i)
    IN  [kind |-> IF cx = "BGGR" \/ cx = "RGGB" THEN "c" ELSE "g", cfa |-> cx]

\* Every colour site taken for a red one.
OwnChan_AlwaysRed(c) == 0

\* (c, d) of apply_kernel_c! and (h, v) of apply_kernel_g!.
OwnChan(c)  == IF c = "BGGR" THEN 2 ELSE 0
DiagChan(c) == IF c = "BGGR" THEN 0 ELSE 2
\* Both green phases with red as the horizontal neighbour.
HorzChan_AlwaysRed(c) == 0

HorzChan(c) == IF c = "GBRG" THEN 2 ELSE 0
VertChan(c) == IF c = "GBRG" THEN 0 ELSE 2

\* The row without the colour site that `if i < w` handles after the pairs.
none_kernel_row_NoOddPixel(curr, c, w) ==
    RowOf([n \in 1..w |->
              LET i == n - 1
                  st == SiteAt(c, i)
              IN  IF st.kind = "c"
                  THEN [k \in 1..3 |-> IF k - 1 = OwnChan(st.cfa) /\ i + 1 < w
                                       THEN At(curr, i) ELSE 0]
                  ELSE [k \in 1..3 |-> IF k - 1 = 1 THEN At(curr, i) ELSE 0]], w)

\* ---- none.rs
none_kernel_row(curr, c, w) ==
    RowOf([n \in 1..w |->
              LET i == n - 1
                  st == SiteAt(c, i)
              IN  IF st.kind = "c"
                  THEN [k \in 1..3 |-> IF k - 1 = OwnChan(st.cfa) THEN At(curr, i) ELSE 0]
                  ELSE [k \in 1..3 |-> IF k - 1 = 1 THEN At(curr, i) ELSE 0]], w)

\* The diagonal colour taken from straight above.
nn_kernel_row_DiagAbove(prev, curr, c, w) ==
    RowOf([n \in 1..w |->
              LET i == n - 1
                  j == i + 1
                  st == NNSiteAt(c, i)
              IN  IF st.kind = "c"
                  THEN Pixel(OwnChan(st.cfa), At(curr, j), At(curr, j - 1),
                             DiagChan(st.cfa), At(prev, j))
                  ELSE Pixel(HorzChan(st.cfa), At(curr, j - 1), At(curr, j),
                             VertChan(st.cfa), At(prev, j))], w)

\* ---- nearestneighbour.rs
nn_kernel_row(prev, curr, c, w) ==
    RowOf([n \in 1..w |->
              LET i == n - 1
                  j == i + 1
                  st == NNSiteAt(c, i)
              IN  IF st.kind = "c"
                  THEN Pixel(OwnChan(st.cfa), At(curr, j), At(curr, j - 1),
                             DiagChan(st.cfa), At(prev, j - 1))
                  ELSE Pixel(HorzChan(st.cfa), At(curr, j - 1), At(curr, j),
                             VertChan(st.cfa), At(prev, j))], w)

\* The horizontal and vertical means stored in each other's channel.
linear_kernel_row_SwappedHV(prev, curr, next, c, w, bd) ==
    RowOf([n \in 1..w |->
              LET i == n - 1
                  j == i + 1
                  st == SiteAt(c, i)
              IN  IF st.kind = "c"
                  THEN Pixel(OwnChan(st.cfa), At(curr, j),
                             AsT((At(prev, j) + At(curr, j - 1) + At(curr, j + 1)
                                  + At(next, j)) \div 4, bd),
                             DiagChan(st.cfa),
                             AsT((At(prev, j - 1) + At(prev, j + 1) + At(next, j - 1)
                                  + At(next, j + 1)) \div 4, bd))
                  ELSE Pixel(VertChan(st.cfa),
                             AsT((At(curr, j - 1) + At(curr, j + 1)) \div 2, bd),
                             At(curr, j),
                             HorzChan(st.cfa),
                             AsT((At(prev, j) + At(next, j)) \div 2, bd))], w)

\* ---- linear.rs: the u32 sums of apply_kernel_c! (g, d) and of
\* apply_kernel_g! (h, v) at cell j, before the division.
linear_sums(prev, curr, next, j) ==
    [g |-> At(prev, j) + At(curr, j - 1) + At(curr, j + 1) + At(next, j),
     d |-> At(prev, j - 1) + At(prev, j + 1) + At(next, j - 1) + At(next, j + 1),
     h |-> At(curr, j - 1) + At(curr, j + 1),
     v |-> At(prev, j) + At(next, j)]

linear_kernel_row(prev, curr, next, c, w, bd) ==
    RowOf([n \in 1..w |->
              LET i == n - 1
                  j == i + 1
                  st == SiteAt(c, i)
              IN  IF st.kind = "c"
                  THEN Pixel(OwnChan(st.cfa), At(curr, j),
                             AsT(linear_sums(prev, curr, next, j).g \div 4, bd),
                             DiagChan(st.cfa),
                             AsT(linear_sums(prev, curr, next, j).d \div 4, bd))
                  ELSE Pixel(HorzChan(st.cfa),
                             AsT(linear_sums(prev, curr, next, j).h \div 2, bd),
                             At(curr, j),
                             VertChan(st.cfa),
                             AsT(linear_sums(prev, curr, next, j).v \div 2, bd))], w)

\* ---- cubic.rs; r is <<prv3, prv2, prv1, curr, nxt1, nxt2, nxt3>>.
\* The u32 accumulators of apply_kernel_c! at cell j: g_pos and g_neg.
cubic_g_sums(r, j) ==
    LET prv3 == r[1]
        prv2 == r[2]
        prv1 == r[3]
        curr == r[4]
        nxt1 == r[5]
        nxt2 == r[6]
        nxt3 == r[7]
    IN  [pos |-> (At(prv1, j) + At(curr, j - 1) + At(curr, j + 1) + At(nxt1, j)) * 81
                 + (At(prv3, j) + At(curr, j - 3) + At(curr, j + 3) + At(nxt3, j)),
         neg |-> (At(prv2, j - 1) + At(prv2, j + 1)
                  + At(prv1, j - 2) + At(prv1, j + 2)
                  + At(nxt1, j - 2) + At(nxt1, j + 2)
                  + At(nxt2, j - 1) + At(nxt2, j + 1)) * 9]

\* d_pos and d_neg.
cubic_d_sums(r, j) ==
    LET prv3 == r[1]
        prv1 == r[3]
        nxt1 == r[5]
        nxt3 == r[7]
    IN  [pos |-> (At(prv1, j - 1) + At(prv1, j + 1)
                  + At(nxt1, j - 1) + At(nxt1, j + 1)) * 81
                 + (At(prv3, j - 3) + At(prv3, j + 3)
                    + At(nxt3, j - 3) + At(nxt3, j + 3)),
         neg |-> (At(prv3, j - 1) + At(prv3, j + 1)
                  + At(prv1, j - 3) + At(prv1, j + 3)
                  + At(nxt1, j - 3) + At(nxt1, j + 3)
                  + At(nxt3, j - 1) + At(nxt3, j + 1)) * 9]

\* The accumulators of apply_kernel_g! at cell j: h_pos and h_neg.
cubic_h_sums(r, j) ==
    LET curr == r[4]
    IN  [pos |-> (At(curr, j - 1) + At(curr, j + 1)) * 9,
         neg |-> At(curr, j - 3) + At(curr, j + 3)]

\* v_pos and v_neg.
cubic_v_sums(r, j) ==
    LET prv3 == r[1]
        prv1 == r[3]
        nxt1 == r[5]
        nxt3 == r[7]
    IN  [pos |-> (At(prv1, j) + At(nxt1, j)) * 9,
         neg |-> At(prv3, j) + At(nxt3, j)]

\* An interpolation that is not limited to the channel maximum.
clamped_NoMin(sums, div, bd) == saturating_sub(sums.pos, sums.neg) \div div

\* min(pos.saturating_sub(neg) / div, $T::max_value() as u32): the u32 that
\* `as $T` then narrows.
clamped(sums, div, bd) ==
    Min(saturating_sub(sums.pos, sums.neg) \div div, MaxValue(bd))

cubic_kernel_c(r, c, i, bd) ==
    Pixel(OwnChan(c), At(r[4], i + 3),
          AsT(clamped(cubic_g_sums(r, i + 3), 256, bd), bd),
          DiagChan(c),
          AsT(clamped(cubic_d_sums(r, i + 3), 256, bd), bd))

\* The near taps without their weight of 9.
cubic_kernel_g_UnitWeights(r, c, i, bd) ==
    LET j == i + 3
        prv3 == r[1]
        prv1 == r[3]
        curr == r[4]
        nxt1 == r[5]
        nxt3 == r[7]
        h_pos == At(curr, j - 1) + At(curr, j + 1)
        h_neg == At(curr, j - 3) + At(curr, j + 3)
        v_pos == At(prv1, j) + At(nxt1, j)
        v_neg == At(prv3, j) + At(nxt3, j)
    IN  Pixel(HorzChan(c),
              AsT(Min(saturating_sub(h_pos, h_neg) \div 16, MaxValue(bd)), bd),
              At(curr, j),
              VertChan(c),
              AsT(Min(saturating_sub(v_pos, v_neg) \div 16, MaxValue(bd)), bd))

cubic_kernel_g(r, c, i, bd) ==
    Pixel(HorzChan(c),
          AsT(clamped(cubic_h_sums(r, i + 3), 16, bd), bd),
          At(r[4], i + 3),
          VertChan(c),
          AsT(clamped(cubic_v_sums(r, i + 3), 16, bd), bd))

cubic_kernel_row(r, c, w, bd) ==
    RowOf([n \in 1..w |->
              LET st == SiteAt(c, n - 1)
              IN  IF st.kind = "c" THEN cubic_kernel_c(r, st.cfa, n - 1, bd)
                                   ELSE cubic_kernel_g(r, st.cfa, n - 1, bd)], w)

(***************************************************************************)
(* demosaic/*.rs: run and the debayer functions, a step at a time.  A step *)
(* gives the record [res, pos, buf, win, yrow, cfa]: res is Unset while    *)
(* the call goes on, and "Ok", an error kind or "panic" when it returns.   *)
(***************************************************************************)
check_depth_BEOnly(bayer, raster) ==
    IF raster = "Depth8" THEN bayer = "Depth8" ELSE bayer = "Depth16BE"

check_depth(bayer, raster) ==
    IF raster = "Depth8" THEN bayer = "Depth8"
    ELSE bayer = "Depth16BE" \/ bayer = "Depth16LE"

\* The least width and height run accepts.
MinSide_CubicThree(a) == IF a = "Cubic" THEN 3 ELSE 2

MinSide(a) == IF a = "Cubic" THEN 4 ELSE 2

\* run, up to the call of debayer_u8 or debayer_u16: the error it returns
\* (Unset when it goes on) and the stream position it leaves.
run_DepthCheckedAfterRead(a, bd, v, s, p) ==
    IF v.w < MinSide(a) \/ v.h < MinSide(a)
    THEN [res |-> "WrongResolution", pos |-> p]
    ELSE IF ~check_depth(bd, v.depth)
    THEN [res |-> "WrongDepth", pos |-> read_exact(bd, s, p, v.w).pos]
    ELSE [res |-> Unset, pos |-> p]

run(a, bd, v, s, p) ==
    IF v.w < MinSide(a) \/ v.h < MinSide(a)
    THEN [res |-> "WrongResolution", pos |-> p]
    ELSE IF ~check_depth(bd, v.depth)
    THEN [res |-> "WrongDepth", pos |-> p]
    ELSE [res |-> Unset, pos |-> p]

\* The border struct the algorithm constructs (BorderNone has no fields).
BorderOf(a, w) ==
    CASE a = "None" -> [x1 |-> 0, x2 |-> w, x3 |-> w]
      [] a = "NearestNeighbour" -> BorderReplicate_new(w, PaddingOf(a))
      [] a = "Linear" -> BorderReplicate_new(w, PaddingOf(a))
      [] a = "Cubic" -> BorderMirror_new(w, PaddingOf(a))

\* n successive read_line calls, stopping at the first error: [ok, rows, pos].
RECURSIVE ReadLines(_, _, _, _, _, _)
ReadLines(kind, b, bd, s, p, n) ==
    IF n = 0 THEN [ok |-> TRUE, rows |-> <<>>, pos |-> p]
    ELSE LET first == ReadLines(kind, b, bd, s, p, n - 1)
         IN  IF ~first.ok THEN first
             ELSE LET rd == read_line(kind, b, bd, s, first.pos)
                  IN  IF ~rd.ok THEN [ok |-> FALSE, rows |-> <<>>, pos |-> rd.pos]
                      ELSE [ok |-> TRUE, rows |-> Append(first.rows, rd.vals),
                            pos |-> rd.pos]

\* vec![0; n]
Zeros(n) == [i \in 1..n |-> 0]

\* borrow_row_u8_mut in debayer_u8, borrow_row_u16_mut in debayer_u16.
BorrowRow(v, y, bd) ==
    IF bd = "Depth8" THEN borrow_row_u8_mut(v, y) ELSE borrow_row_u16_mut(v, y)

\* The bytes of the elements vals[1..n] of a row of element width `width`.
RECURSIVE RowBytes(_, _, _, _)
RowBytes(vals, n, width, be) ==
    IF n = 0 THEN <<>>
    ELSE RowBytes(vals, n - 1, width, be)
            \o (IF width = 1 THEN <<vals[n]>> ELSE NativeBytes(vals[n], be))

\* The buffer after the kernel has stored vals[1..n] in the row sl.
StoreRow(b, sl, vals, be) ==
    SubSeq(b, 1, sl.start) \o RowBytes(vals, sl.n, sl.width, be)
        \o SubSeq(b, sl.start + sl.n * sl.width + 1, Len(b))

\* Rows ys[1..] borrowed and stored in turn, rowvals[k] into row ys[k]:
\* [ok, buf], ok false when a borrow panics.
RECURSIVE WriteRows(_, _, _, _, _, _)
WriteRows(b, v, bd, be, ys, rowvals) ==
    IF ys = <<>> THEN [ok |-> TRUE, buf |-> b]
    ELSE LET sl == BorrowRow(v, Head(ys), bd)
         IN  IF sl = Panic THEN [ok |-> FALSE, buf |-> b]
             ELSE WriteRows(StoreRow(b, sl, Head(rowvals), be), v, bd, be,
                            Tail(ys), Tail(rowvals))

\* A decode that restores the destination when a read fails.
Step_RolledBack(res, p, b, wn, y, c) ==
    [res |-> res, pos |-> p, buf |-> IF res = "Io" THEN PriorBuf(Len(b)) ELSE b,
     win |-> wn, yrow |-> y, cfa |-> c]

Step(res, p, b, wn, y, c) ==
    [res |-> res, pos |-> p, buf |-> b, win |-> wn, yrow |-> y, cfa |-> c]

\* After the rows are stored: go on, or "panic" when a borrow failed.
Stored(wr, after, p, wn, y, c) ==
    Step(IF wr.ok THEN after ELSE "panic", p, wr.buf, wn, y, c)

\* ---- sequential build: from the call of debayer to the first loop.
seq_begin(a, c0, bd, v, be, s, p, b) ==
    LET w    == v.w
        bord == BorderOf(a, w)
        rd   == ReadLines(BorderKind(a), bord, bd, s, p,
                          CASE a = "None" -> 0
                            [] a = "NearestNeighbour" -> 2
                            [] a = "Linear" -> 2
                            [] a = "Cubic" -> 4)
        r    == rd.rows
    IN  IF bord = Panic THEN Step("panic", p, b, <<>>, 0, c0)
        ELSE IF ~rd.ok THEN Step("Io", rd.pos, b, <<>>, 0, c0)
        ELSE CASE a = "None" ->
                    Step(Unset, p, b, <<Zeros(w)>>, 0, c0)
               [] a = "NearestNeighbour" ->
                    \* prev, curr read; y = 0 with (curr, prev), y = 1 with (prev, curr)
                    Stored(WriteRows(b, v, bd, be, <<0, 1>>,
                                     <<nn_kernel_row(r[2], r[1], c0, w),
                                       nn_kernel_row(r[1], r[2], next_y(c0), w)>>),
                           Unset, rd.pos, <<r[1], r[2]>>, 2, next_y(next_y(c0)))
               [] a = "Linear" ->
                    \* curr, next read; y = 0 with (next, curr, next)
                    Stored(WriteRows(b, v, bd, be, <<0>>,
                                     <<linear_kernel_row(r[2], r[1], r[2], c0, w, bd)>>),
                           Unset, rd.pos, <<Zeros(w + 2), r[1], r[2]>>, 1, next_y(c0))
               [] a = "Cubic" ->
                    \* curr, nxt1, nxt2, nxt3 read; prv1..3 copied from nxt1..3
                    Stored(WriteRows(b, v, bd, be, <<0>>,
                                     <<cubic_kernel_row(<<r[4], r[3], r[2], r[1],
                                                          r[2], r[3], r[4]>>, c0, w, bd)>>),
                           Unset, rd.pos,
                           <<r[4], r[3], r[2], r[1], r[2], r[3], r[4]>>, 1, next_y(c0))

\* The first y the loop `for y in lo..hi` does not run.
LoopEnd(a, h) ==
    CASE a = "None" -> h
      [] a = "NearestNeighbour" -> h
      [] a = "Linear" -> h - 1
      [] a = "Cubic" -> h - 3

\* rotate!: the first buffer becomes the last.
Rotate(wn) == Append(Tail(wn), Head(wn))

\* A loop iteration that reads two rows and keeps the second: the loop runs
\* one row further ahead of the output with every iteration.
seq_row_ReadsTwo(a, c, bd, v, be, s, p, b, wn, y) ==
    LET w    == v.w
        bord == BorderOf(a, w)
        rd0  == read_line(BorderKind(a), bord, bd, s, p)
        rd   == IF rd0.ok THEN read_line(BorderKind(a), bord, bd, s, rd0.pos) ELSE rd0
        rot  == [Rotate(wn) EXCEPT ![Len(wn)] = rd.vals]
    IN  IF a = "None" /\ BorrowRow(v, y, bd) = Panic THEN Step("panic", p, b, wn, y, c)
        ELSE IF ~rd.ok THEN Step("Io", rd.pos, b, wn, y, c)
        ELSE Stored(WriteRows(b, v, bd, be, <<y>>,
                       <<CASE a = "None" -> none_kernel_row(rd.vals, c, w)
                           [] a = "NearestNeighbour" ->
                                nn_kernel_row(rot[1], rot[2], c, w)
                           [] a = "Linear" ->
                                linear_kernel_row(rot[1], rot[2], rot[3], c, w, bd)
                           [] a = "Cubic" -> cubic_kernel_row(rot, c, w, bd)>>),
                    Unset, rd.pos, rot, y + 1, next_y(c))

\* ---- sequential build: one iteration of the loop, at y.
seq_row(a, c, bd, v, be, s, p, b, wn, y) ==
    LET w    == v.w
        bord == BorderOf(a, w)
        rd   == read_line(BorderKind(a), bord, bd, s, p)
        rot  == [Rotate(wn) EXCEPT ![Len(wn)] = rd.vals]
    IN  IF a = "None" /\ BorrowRow(v, y, bd) = Panic THEN Step("panic", p, b, wn, y, c)
        ELSE IF ~rd.ok THEN Step("Io", rd.pos, b, wn, y, c)
        ELSE Stored(WriteRows(b, v, bd, be, <<y>>,
                       <<CASE a = "None" -> none_kernel_row(rd.vals, c, w)
                           [] a = "NearestNeighbour" ->
                                nn_kernel_row(rot[1], rot[2], c, w)
                           [] a = "Linear" ->
                                linear_kernel_row(rot[1], rot[2], rot[3], c, w, bd)
                           [] a = "Cubic" -> cubic_kernel_row(rot, c, w, bd)>>),
                    Unset, rd.pos, rot, y + 1, next_y(c))

\* The last rows of Cubic with the last image row repeated below the frame
\* in place of the rows reflected about it.
seq_end_LastRowRepeated(a, c, bd, v, be, p, b, wn) ==
    LET w == v.w
        h == v.h
    IN  CASE a = "None" -> Step("Ok", p, b, wn, h, c)
          [] a = "NearestNeighbour" -> Step("Ok", p, b, wn, h, c)
          [] a = "Linear" ->
               Stored(WriteRows(b, v, bd, be, <<h - 1>>,
                                <<linear_kernel_row(wn[2], wn[3], wn[2], c, w, bd)>>),
                      "Ok", p, wn, h, c)
          [] a = "Cubic" ->
               Stored(WriteRows(b, v, bd, be, <<h - 3, h - 2, h - 1>>,
                        <<cubic_kernel_row(<<wn[2], wn[3], wn[4], wn[5], wn[6], wn[7],
                                             wn[7]>>, c, w, bd),
                          cubic_kernel_row(<<wn[3], wn[4], wn[5], wn[6], wn[7], wn[7],
                                             wn[7]>>, next_y(c), w, bd),
                          cubic_kernel_row(<<wn[4], wn[5], wn[6], wn[7], wn[7], wn[7],
                                             wn[7]>>, next_y(next_y(c)), w, bd)>>),
                      "Ok", p, wn, h, next_y(next_y(c)))

\* ---- sequential build: after the loop.
seq_end(a, c, bd, v, be, p, b, wn) ==
    LET w == v.w
        h == v.h
    IN  CASE a = "None" -> Step("Ok", p, b, wn, h, c)
          [] a = "NearestNeighbour" -> Step("Ok", p, b, wn, h, c)
          [] a = "Linear" ->
               \* y = h - 1 with (curr, next, curr)
               Stored(WriteRows(b, v, bd, be, <<h - 1>>,
                                <<linear_kernel_row(wn[2], wn[3], wn[2], c, w, bd)>>),
                      "Ok", p, wn, h, c)
          [] a = "Cubic" ->
               Stored(WriteRows(b, v, bd, be, <<h - 3, h - 2, h - 1>>,
                        <<cubic_kernel_row(<<wn[2], wn[3], wn[4], wn[5], wn[6], wn[7],
                                             wn[6]>>, c, w, bd),
                          cubic_kernel_row(<<wn[3], wn[4], wn[5], wn[6], wn[7], wn[6],
                                             wn[5]>>, next_y(c), w, bd),
                          cubic_kernel_row(<<wn[4], wn[5], wn[6], wn[7], wn[6], wn[5],
                                             wn[4]>>, next_y(next_y(c)), w, bd)>>),
                      "Ok", p, wn, h, next_y(next_y(c)))

\* ---- rayon build: "Read all data": [ok, data, pos], data the rows of the
\* padded frame, the top and bottom rows copied from inside the frame.
par_read(a, bd, v, s, p) ==
    LET h  == v.h
        rd == ReadLines(BorderKind(a), BorderOf(a, v.w), bd, s, p, h)
        r  == rd.rows
    IN  IF ~rd.ok THEN [ok |-> FALSE, data |-> <<>>, pos |-> rd.pos]
        ELSE [ok |-> TRUE, pos |-> rd.pos,
              data |-> IF a = "Linear"
                       THEN <<r[2]>> \o r \o <<r[h - 1]>>
                       ELSE <<r[4], r[3], r[2]>> \o r \o <<r[h - 1], r[h - 2], r[h - 3]>>]

\* The number of chunks dst.buf.par_chunks_mut(dst.stride) yields.
NChunks(len, stride) == (len + stride - 1) \div stride

\* A row task that stores its pixels one stride further on, in the chunk of
\* the next task.
par_task_NextChunk(a, c0, bd, v, be, dat, b, y) ==
    LET w     == v.w
        P     == PaddingOf(a)
        start == v.stride * (y + 1)
        clen  == Min(v.stride, Len(b) - start)
        n     == IF bd = "Depth8" THEN clen ELSE clen \div 2
        cfa_y == IF y % 2 = 0 THEN c0 ELSE next_y(c0)
        sl    == [start |-> start, n |-> 3 * w, width |-> IF bd = "Depth8" THEN 1 ELSE 2]
    IN  IF y + 2 * P + 1 > Len(dat) THEN [ok |-> FALSE, buf |-> b]
        ELSE IF 3 * w > n THEN [ok |-> FALSE, buf |-> b]
        ELSE [ok |-> TRUE,
              buf |-> StoreRow(b, sl,
                        IF a = "Linear"
                        THEN linear_kernel_row(dat[y + 1], dat[y + 2], dat[y + 3],
                                               cfa_y, w, bd)
                        ELSE cubic_kernel_row(SubSeq(dat, y + 1, y + 7), cfa_y, w, bd),
                        be)]

\* ---- rayon build: the task of chunk y: [ok, buf], ok false when it panics.
par_task(a, c0, bd, v, be, dat, b, y) ==
    LET w     == v.w
        P     == PaddingOf(a)
        start == v.stride * y
        clen  == Min(v.stride, Len(b) - start)
        n     == IF bd = "Depth8" THEN clen ELSE clen \div 2
        cfa_y == IF y % 2 = 0 THEN c0 ELSE next_y(c0)
        sl    == [start |-> start, n |-> 3 * w, width |-> IF bd = "Depth8" THEN 1 ELSE 2]
    IN  IF y + 2 * P + 1 > Len(dat) THEN [ok |-> FALSE, buf |-> b]
        ELSE IF 3 * w > n THEN [ok |-> FALSE, buf |-> b]
        ELSE [ok |-> TRUE,
              buf |-> StoreRow(b, sl,
                        IF a = "Linear"
                        THEN linear_kernel_row(dat[y + 1], dat[y + 2], dat[y + 3],
                                               cfa_y, w, bd)
                        ELSE cubic_kernel_row(SubSeq(dat, y + 1, y + 7), cfa_y, w, bd),
                        be)]

\* ---- sequential build: the loop `for y in lo..hi`, to its end or to the
\* first read_line that fails.
RECURSIVE seq_loop(_, _, _, _, _, _)
seq_loop(a, bd, v, be, s, st) ==
    IF st.res # Unset \/ ~(st.yrow < LoopEnd(a, v.h)) THEN st
    ELSE seq_loop(a, bd, v, be, s,
                  seq_row(a, st.cfa, bd, v, be, s, st.pos, st.buf, st.win, st.yrow))

\* After the loop: the rows left, unless a read failed or a borrow panicked.
seq_finish(a, bd, v, be, l) ==
    IF l.res # Unset THEN l
    ELSE seq_end(a, l.cfa, bd, v, be, l.pos, l.buf, l.win)

\* debayer_u8 / debayer_u16 of the build without rayon, from call to return.
debayer_naive(a, c0, bd, v, be, s, p, b) ==
    seq_finish(a, bd, v, be,
               seq_loop(a, bd, v, be, s, seq_begin(a, c0, bd, v, be, s, p, b)))

\* ---- rayon build: the tasks of chunks y .. n - 1, one after the other.
RECURSIVE par_tasks(_, _, _, _, _, _, _, _, _)
par_tasks(a, c0, bd, v, be, dat, b, y, n) ==
    IF y = n THEN [ok |-> TRUE, buf |-> b]
    ELSE LET t == par_task(a, c0, bd, v, be, dat, b, y)
         IN  IF ~t.ok THEN t
             ELSE par_tasks(a, c0, bd, v, be, dat, t.buf, y + 1, n)

\* for_each returns: Ok(()), or the panic of a task.
par_join(t, p, c0) == Step(IF t.ok THEN "Ok" ELSE "panic", p, t.buf, <<>>, 0, c0)

\* The rayon build after "Read all data".  The chunks are disjoint, so the
\* order of the tasks does not show in the buffer of a call in which none
\* panics.
par_run(a, c0, bd, v, be, b, rd) ==
    IF ~rd.ok THEN Step("Io", rd.pos, b, <<>>, 0, c0)
    ELSE par_join(par_tasks(a, c0, bd, v, be, rd.data, b, 0,
                            NChunks(Len(b), v.stride)), rd.pos, c0)

\* debayer_u8 / debayer_u16 of the rayon build, from call to return.
debayer_rayon(a, c0, bd, v, be, s, p, b) ==
    par_run(a, c0, bd, v, be, b, par_read(a, bd, v, s, p))

\* demosaic (lib.rs) -> <alg>::run -> debayer, in the build named.
demosaic(build, a, c0, bd, v, be, s, p, b) ==
    LET r == run(a, bd, v, s, p)
    IN  IF r.res # Unset THEN Step(r.res, r.pos, b, <<>>, 0, c0)
        ELSE IF build = "par" /\ a \in {"Linear", "Cubic"}
        THEN debayer_rayon(a, c0, bd, v, be, s, p, b)
        ELSE debayer_naive(a, c0, bd, v, be, s, p, b)

(***************************************************************************)
(* Values the variables of the other specifications rest at.               *)
(***************************************************************************)
IdleCFA ==
    /\ phase0 = "BGGR"
    /\ trail = <<"BGGR">>
    /\ steps = <<>>

IdleRaster ==
    /\ ctor = Nil
    /\ slice = Nil
    /\ nwrites = 0

IdleShared ==
    /\ view = NoView
    /\ buf = <<>>
    /\ hostBE = FALSE

IdleBorder ==
    /\ binput = Nil
    /\ border = Nil
    /\ row = <<>>
    /\ rpos = 0
    /\ rres = Unset

\* No call through the C interface is in progress.
Pending == 0 - 1

IdleFFI ==
    /\ cargs = Nil
    /\ cret = Pending

IdleDecode ==
    /\ alg = "None"
    /\ cfa0 = "BGGR"
    /\ bdepth = "Depth8"
    /\ stream = <<>>
    /\ mode = "seq"
    /\ pc = "idle"
    /\ pos = 0
    /\ win = <<>>
    /\ yrow = 0
    /\ cfa = "BGGR"
    /\ data = <<>>
    /\ pending = {}
    /\ panicked = FALSE
    /\ result = Unset
    /\ saved = Nil

(***************************************************************************)
(* One decode: the caller builds a view over its buffer and calls demosaic *)
(* (lib.rs); for Linear and Cubic it then makes the same call with the     *)
(* build that has feature rayon, on a buffer holding what the first held.  *)
(***************************************************************************)
\* The bytes of the raw file: the 8x8 frame of the tests of cubic.rs, repeated.
TestBytes ==
    <<229,  67,  95, 146, 232,  51, 229, 241,
      169, 161,  15,  52,  45, 175,  98, 197,
      127, 183, 253,  97, 199, 239,  54, 166,
       32,  68,  98,   3,  97, 222,  87, 123,
      153, 126,  47, 211, 171, 203,  27, 185,
      105, 210, 165, 200, 141, 135, 202,   5,
      122, 187, 177, 122, 220, 112,  62,  18,
       25,  80, 132, 169, 104, 233,  75, 117>>

StreamOf(n) == [i \in 1..n |-> TestBytes[((i - 1) % Len(TestBytes)) + 1]]

SampleBytes(bd) == IF bd = "Depth8" THEN 1 ELSE 2

\* The bytes a w by h frame takes at depth bd.
FrameBytes(w, h, bd) == w * h * SampleBytes(bd)

\* The stream is the whole frame, the frame cut in half, the frame less its
\* last byte, or the frame and one byte more.
StreamCases == {"exact", "half", "cut", "long"}

StreamLen(sc, need) ==
    CASE sc = "exact" -> need
      [] sc = "half"  -> need \div 2
      [] sc = "cut"   -> need - 1
      [] sc = "long"  -> need + 1

\* The plain call is RasterMut::new on a buffer of exactly stride * h bytes
\* and a stream holding exactly the frame.  A decode departs from it in at
\* most one way: a view origin right (x0) or down (y0), slack pixels at the
\* end of each row, tail bytes after the last row, each of 1..MaxExtra, or
\* the length of the stream.
Departures  == {"plain", "x0", "y0", "slack", "tail", "half", "cut", "long"}

Extra(d, kind, k) == IF d = kind THEN k ELSE 0

\* Heights 1..MaxDim, and for Cubic at full width and without a departure
\* of the view one taller frame, so that its loop over 1..h-3 runs twice.
Heights(a, d, w) ==
    (1..MaxDim) \cup (IF a = "Cubic" /\ d \in {"plain", "cut", "long"} /\ w = MaxDim
                      THEN {MaxDim + 2} ELSE {})

InitDecode ==
    \E a \in Algs, c \in CFASet, bd \in BayerDepths, rdp \in RasterDepths,
       w \in 1..MaxDim, d \in Departures, k \in 1..MaxExtra, be \in BOOLEAN :
      \E h \in Heights(a, d, w) :
        LET x0     == Extra(d, "x0", k)
            y0     == Extra(d, "y0", k)
            stride == (x0 + w + Extra(d, "slack", k)) * bytes_per_pixel(rdp)
            len    == stride * (y0 + h) + Extra(d, "tail", k)
            sc     == IF d \in StreamCases THEN d ELSE "exact"
            v      == with_offset(x0, y0, w, h, stride, rdp, len)
        IN  /\ d \in {"plain", "half", "cut", "long"} => k = 1
            /\ rdp = "Depth8" => ~be
            /\ len <= UsizeMax
            /\ IsView(v)
            /\ view = v
            /\ buf = PriorBuf(len)
            /\ hostBE = be
            /\ alg = a
            /\ cfa0 = c
            /\ bdepth = bd
            /\ stream = StreamOf(StreamLen(sc, FrameBytes(w, h, bd)))
            /\ mode = "seq"
            /\ pc = "start"
            /\ pos = 0
            /\ win = <<>>
            /\ yrow = 0
            /\ cfa = c
            /\ data = <<>>
            /\ pending = {}
            /\ panicked = FALSE
            /\ result = Unset
            /\ saved = Nil

Init == InitDecode /\ IdleCFA /\ IdleRaster /\ IdleBorder /\ IdleFFI

decodeFixed == <<cfaVars, rasterVars, borderVars, ffiVars, view, hostBE, inputVars>>

\* demosaic -> <alg>::run: the precondition checks.
Run ==
    /\ pc = "start"
    /\ LET r == run(alg, bdepth, view, stream, pos)
       IN  /\ pos' = r.pos
           /\ result' = r.res
           /\ pc' = IF r.res = Unset THEN "debayer" ELSE "done"
    /\ UNCHANGED <<decodeFixed, buf, mode, win, yrow, cfa, data, pending, panicked, saved>>

\* The sequential build has come to st: the call goes on, or has returned.
Stepped(st) ==
    /\ pos' = st.pos
    /\ buf' = st.buf
    /\ win' = st.win
    /\ yrow' = st.yrow
    /\ cfa' = st.cfa
    /\ result' = st.res
    /\ pc' = IF st.res = Unset THEN "rows" ELSE "done"
    /\ UNCHANGED <<decodeFixed, mode, data, pending, panicked, saved>>

\* debayer_u8 / debayer_u16 (not rayon): the reads and rows before the loop.
SeqBegin ==
    /\ pc = "debayer"
    /\ mode = "seq"
    /\ Stepped(seq_begin(alg, cfa0, bdepth, view, hostBE, stream, pos, buf))

\* One iteration of the loop over y.
SeqRow ==
    /\ pc = "rows"
    /\ yrow < LoopEnd(alg, view.h)
    /\ Stepped(seq_row(alg, cfa, bdepth, view, hostBE, stream, pos, buf, win, yrow))

\* The rows after the loop, and Ok(()).
SeqEnd ==
    /\ pc = "rows"
    /\ ~(yrow < LoopEnd(alg, view.h))
    /\ Stepped(seq_end(alg, cfa, bdepth, view, hostBE, pos, buf, win))

\* "Read all data" has given rd.
DataRead(rd) ==
    /\ pos' = rd.pos
    /\ data' = rd.data
    /\ result' = IF rd.ok THEN Unset ELSE "Io"
    /\ pc' = IF rd.ok THEN "tasks" ELSE "done"
    /\ pending' = IF rd.ok THEN 0..(NChunks(Len(buf), view.stride) - 1) ELSE {}
    /\ UNCHANGED <<decodeFixed, mode, buf, win, yrow, cfa, panicked, saved>>

\* debayer_u8 / debayer_u16 (rayon): "Read all data", then one task per chunk.
ParRead ==
    /\ pc = "debayer"
    /\ mode = "par"
    /\ DataRead(par_read(alg, bdepth, view, stream, pos))

\* The task of chunk y has given t.
TaskRan(t, y) ==
    /\ buf' = t.buf
    /\ panicked' = (panicked \/ ~t.ok)
    /\ pending' = pending \ {y}
    /\ UNCHANGED <<decodeFixed, mode, pc, pos, win, yrow, cfa, data, result, saved>>

\* The closure of for_each on one chunk; the tasks run in any order.
ParTask ==
    /\ pc = "tasks"
    /\ \E y \in pending :
          TaskRan(par_task(alg, cfa0, bdepth, view, hostBE, data, buf, y), y)

\* for_each returns: Ok(()), or the panic of a task resumes and tasks not
\* yet started never run.
ParJoin ==
    /\ pc = "tasks"
    /\ pending = {} \/ panicked
    /\ result' = IF panicked THEN "panic" ELSE "Ok"
    /\ pc' = "done"
    /\ UNCHANGED <<decodeFixed, mode, pos, buf, win, yrow, cfa, data, pending, panicked, saved>>

\* The same call again with the rayon build of linear.rs and cubic.rs.
Rerun ==
    /\ pc = "done"
    /\ mode = "seq"
    /\ alg \in {"Linear", "Cubic"}
    /\ saved' = [result |-> result, buf |-> buf, pos |-> pos]
    /\ mode' = "par"
    /\ pc' = "start"
    /\ pos' = 0
    /\ buf' = PriorBuf(Len(buf))
    /\ win' = <<>>
    /\ yrow' = 0
    /\ cfa' = cfa0
    /\ result' = Unset
    /\ UNCHANGED <<decodeFixed, data, pending, panicked>>

Next == Run \/ SeqBegin \/ SeqRow \/ SeqEnd \/ ParRead \/ ParTask \/ ParJoin \/ Rerun

Spec == Init /\ [][Next]_vars

(***************************************************************************)
(* The phase walk: a caller steps a phase right and down (bayer.rs).       *)
(***************************************************************************)
InitCFA ==
    /\ phase0 \in CFASet
    /\ trail = <<phase0>>
    /\ steps = <<>>
    /\ IdleRaster /\ IdleShared /\ IdleDecode /\ IdleBorder /\ IdleFFI

StepRight ==
    /\ Len(steps) < MaxSteps
    /\ trail' = Append(trail, next_x(trail[Len(trail)]))
    /\ steps' = Append(steps, "x")
    /\ UNCHANGED <<phase0, rasterVars, sharedVars, decodeVars, borderVars, ffiVars>>

StepDown ==
    /\ Len(steps) < MaxSteps
    /\ trail' = Append(trail, next_y(trail[Len(trail)]))
    /\ steps' = Append(steps, "y")
    /\ UNCHANGED <<phase0, rasterVars, sharedVars, decodeVars, borderVars, ffiVars>>

NextCFA == StepRight \/ StepDown

SpecCFA == InitCFA /\ [][NextCFA]_vars

(***************************************************************************)
(* The raster: a caller constructs a view over its buffer, borrows rows    *)
(* and writes through them (raster.rs).                                    *)
(***************************************************************************)
WrapSide == (UsizeMax + 1) \div 3 + 1   \* 3 * WrapSide wraps to a small number

Coords  == 0..MaxCoord \cup {UsizeMax}
Sides   == 0..MaxSide \cup {WrapSide, UsizeMax}
Strides == {3 * k : k \in 0..MaxStrideUnits}
BufLens == {12 * k : k \in 0..MaxBufRows} \cup {1}

InitRaster ==
    /\ view = NoView
    /\ buf \in {PriorBuf(len) : len \in BufLens}
    /\ hostBE \in BOOLEAN
    /\ IdleRaster /\ IdleCFA /\ IdleDecode /\ IdleBorder /\ IdleFFI

\* RasterMut::new(w, h, depth, &mut buf)
New ==
    /\ ctor = Nil
    /\ \E w \in Sides, h \in Sides, depth \in RasterDepths :
          /\ view' = RasterMut_new(w, h, depth, Len(buf))
          /\ ctor' = [x |-> 0, y |-> 0, w |-> w, h |-> h,
                      stride |-> w * bytes_per_pixel(depth), depth |-> depth]
    /\ UNCHANGED <<slice, nwrites, buf, hostBE, cfaVars, decodeVars, borderVars, ffiVars>>

\* RasterMut::with_offset(x, y, w, h, stride, depth, &mut buf)
WithOffset ==
    /\ ctor = Nil
    /\ \E x \in Coords, y \in Coords, w \in Sides, h \in Sides,
          stride \in Strides, depth \in RasterDepths :
          /\ view' = with_offset(x, y, w, h, stride, depth, Len(buf))
          /\ ctor' = [x |-> x, y |-> y, w |-> w, h |-> h,
                      stride |-> stride, depth |-> depth]
    /\ UNCHANGED <<slice, nwrites, buf, hostBE, cfaVars, decodeVars, borderVars, ffiVars>>

\* dst.borrow_row_u8_mut(y)
BorrowRowU8 ==
    /\ IsView(view)
    /\ nwrites < MaxWrites
    /\ \E y \in 0..(MaxSide + 1) :
          slice' = [row |-> y, width |-> 1, got |-> borrow_row_u8_mut(view, y)]
    /\ UNCHANGED <<ctor, nwrites, sharedVars, cfaVars, decodeVars, borderVars, ffiVars>>

\* dst.borrow_row_u16_mut(y)
BorrowRowU16 ==
    /\ IsView(view)
    /\ nwrites < MaxWrites
    /\ \E y \in 0..(MaxSide + 1) :
          slice' = [row |-> y, width |-> 2, got |-> borrow_row_u16_mut(view, y)]
    /\ UNCHANGED <<ctor, nwrites, sharedVars, cfaVars, decodeVars, borderVars, ffiVars>>

\* The value a caller stores in element k of a row (raster.rs test: (i << 8) | i).
ElemValue(k, width) == IF width = 1 THEN 200 + k ELSE 256 * (k + 1) + 200 + k

\* row[k] = value, through the slice last borrowed
WriteSlice ==
    /\ slice # Nil
    /\ slice.got # Panic
    /\ nwrites < MaxWrites
    /\ \E k \in 0..(slice.got.n - 1) :
          buf' = StoreElem(buf, slice.got, k, ElemValue(k, slice.width), hostBE)
    /\ nwrites' = nwrites + 1
    /\ UNCHANGED <<ctor, slice, view, hostBE, cfaVars, decodeVars, borderVars, ffiVars>>

NextRaster == New \/ WithOffset \/ BorrowRowU8 \/ BorrowRowU16 \/ WriteSlice

SpecRaster == InitRaster /\ [][NextRaster]_vars

(***************************************************************************)
(* One border reader: a caller makes it with new(width, padding) and reads *)
(* one line into a row of width + 2 * padding cells (border_*.rs).         *)
(***************************************************************************)
BorderKinds == {"replicate", "mirror"}

\* What the row holds before the call; no sample has this value.
Stale == MaxSample + 2

InitBorder ==
    /\ \E kind \in BorderKinds, width \in (0..MaxWidth) \cup {UsizeMax},
          padding \in 0..MaxPadding, bd \in BayerDepths, sc \in StreamCases,
          checks \in BOOLEAN :
            binput = [kind |-> kind, width |-> width, padding |-> padding,
                      depth |-> bd, checks |-> checks,
                      stream |-> StreamOf(StreamLen(sc, FrameBytes(width % (MaxWidth + 1),
                                                                  1, bd)))]
    /\ border = Nil
    /\ row = <<>>
    /\ rpos = 0
    /\ rres = Unset
    /\ IdleCFA /\ IdleRaster /\ IdleShared /\ IdleDecode /\ IdleFFI

\* BorderReplicate*::new / BorderMirror*::new, and the caller's row buffer.
BorderNew ==
    /\ border = Nil
    /\ border' = IF binput.kind = "replicate"
                 THEN BorderReplicate_new(binput.width, binput.padding)
                 ELSE BorderMirror_new(binput.width, binput.padding)
    /\ row' = IF border' = Panic THEN <<>> ELSE [k \in 1..border'.x3 |-> Stale]
    /\ UNCHANGED <<binput, rpos, rres, cfaVars, rasterVars, sharedVars, decodeVars, ffiVars>>

\* rdr.read_line(r, &mut row)
ReadLine ==
    /\ border # Nil
    /\ border # Panic
    /\ rres = Unset
    /\ LET rd == read_line_into(binput.kind, border, binput.depth, binput.stream,
                                rpos, row, binput.checks)
       IN  /\ rres' = rd.res
           /\ row' = rd.row
           /\ rpos' = rd.pos
    /\ UNCHANGED <<binput, border, cfaVars, rasterVars, sharedVars, decodeVars, ffiVars>>

NextBorder == BorderNew \/ ReadLine

SpecBorder == InitBorder /\ [][NextBorder]_vars

(***************************************************************************)
(* One whole call of demosaic on a view made by RasterMut::new, in either  *)
(* build, on frames like those of the tests: the 8x8 test bytes, a flat    *)
(* field, one bright sample in a dark frame, and the frame of              *)
(* test_overflow (bright, with a dark plus in the middle).                 *)
(***************************************************************************)
FrameKinds == {"test", "flat", "impulse", "hole"}

\* The levels of the flat fields of a depth.
FlatLevels(bd) == {1, MaxValue(bd)}

Frames(bd) ==
    {[kind |-> "test", level |-> 0]}
        \cup {[kind |-> "flat", level |-> c] : c \in FlatLevels(bd)}
        \cup {[kind |-> k, level |-> MaxValue(bd)] : k \in {"impulse", "hole"}}

Dist(a, b) == IF a < b THEN b - a ELSE a - b

\* The sample at column x, row y of a w by h frame.
FrameSample(f, w, h, x, y) ==
    CASE f.kind = "flat"    -> f.level
      [] f.kind = "impulse" -> IF x = w \div 2 /\ y = h \div 2 THEN f.level ELSE 0
      [] f.kind = "hole"    ->
            IF Dist(x, w \div 2) + Dist(y, h \div 2) <= 1 THEN 0 ELSE f.level

\* The bytes of a sample in the raw file.
EncodeSample(v, bd) ==
    CASE bd = "Depth8"    -> <<v>>
      [] bd = "Depth16BE" -> <<v \div 256, v % 256>>
      [] bd = "Depth16LE" -> <<v % 256, v \div 256>>

FrameStream(f, w, h, bd) ==
    IF f.kind = "test" THEN StreamOf(FrameBytes(w, h, bd))
    ELSE [i \in 1..FrameBytes(w, h, bd) |->
             LET k == (i - 1) \div SampleBytes(bd)
             IN  EncodeSample(FrameSample(f, w, h, k % w, k \div w), bd)
                    [((i - 1) % SampleBytes(bd)) + 1]]

\* The widths decoded: the two least an algorithm accepts (one even, one
\* odd) and the greatest.
Widths(a) == {MinSide(a), MinSide(a) + 1, MaxFrameSide}

RasterDepthOf(bd) == IF bd = "Depth8" THEN "Depth8" ELSE "Depth16"

InitCall ==
    \E a \in Algs, c \in CFASet, bd \in BayerDepths,
       w \in 2..MaxFrameSide, h \in 2..MaxFrameSide, be \in BOOLEAN :
      \E f \in Frames(bd) :
        LET rdp == RasterDepthOf(bd)
            len == w * h * bytes_per_pixel(rdp)
        IN  /\ w \in Widths(a)
            /\ h >= MinSide(a)
            /\ bd = "Depth8" => ~be
            /\ len <= UsizeMax
            /\ view = RasterMut_new(w, h, rdp, len)
            /\ buf = PriorBuf(len)
            /\ hostBE = be
            /\ alg = a
            /\ cfa0 = c
            /\ bdepth = bd
            /\ stream = FrameStream(f, w, h, bd)
            /\ mode = "seq"
            /\ pc = "start"
            /\ pos = 0
            /\ win = <<>>
            /\ yrow = 0
            /\ cfa = c
            /\ data = <<>>
            /\ pending = {}
            /\ panicked = FALSE
            /\ result = Unset
            /\ saved = Nil
            /\ IdleCFA /\ IdleRaster /\ IdleBorder /\ IdleFFI

\* The call returns st in the build named.
Return(st, build) ==
    /\ pos' = st.pos
    /\ buf' = st.buf
    /\ result' = st.res
    /\ mode' = build
    /\ pc' = "done"
    /\ UNCHANGED <<decodeFixed, win, yrow, cfa, data, pending, panicked, saved>>

\* demosaic of the build without feature rayon, from entry to return.
Demosaic ==
    /\ pc = "start"
    /\ Return(demosaic("seq", alg, cfa0, bdepth, view, hostBE, stream, pos, buf), "seq")

\* demosaic of the build with feature rayon (linear.rs and cubic.rs differ).
DemosaicRayon ==
    /\ pc = "start"
    /\ alg \in {"Linear", "Cubic"}
    /\ Return(demosaic("par", alg, cfa0, bdepth, view, hostBE, stream, pos, buf), "par")

NextCall == Demosaic \/ DemosaicRayon

SpecCall == InitCall /\ [][NextCall]_vars

(***************************************************************************)
(* One call through the C interface (ffi.rs): bayerrs_demosaic_none,        *)
(* _nearest_neighbour, _linear and _cubic all pass their arguments and      *)
(* their run function to run_demosaic.  The caller has a raster from        *)
(* bayerrs_raster_mut_alloc (or a null pointer) and a source buffer (or a   *)
(* null pointer), and passes any c_uint as depth, be and cfa.               *)
(***************************************************************************)
\* match (depth, be) of run_demosaic.
DepthOfCode(depth, be) ==
    CASE depth = 8            -> "Depth8"
      [] depth = 16 /\ be = 0 -> "Depth16LE"
      [] depth = 16 /\ be # 0 -> "Depth16BE"
      [] OTHER                -> "invalid"

\* match cfa of run_demosaic.
CfaOfCode(code) ==
    CASE code = 0 -> "BGGR"
      [] code = 1 -> "GBRG"
      [] code = 2 -> "GRBG"
      [] code = 3 -> "RGGB"
      [] OTHER    -> "invalid"

\* run_demosaic returns ret without having called run.
ffi_early(ret, b) == [ret |-> ret, res |-> Unset, pos |-> 0, buf |-> b]

\* The final match of run_demosaic on what run returned; a panic of run
\* never returns.
ffi_match(st) ==
    [ret |-> CASE st.res = "Ok"              -> 0
               [] st.res = "WrongResolution" -> 2
               [] st.res = "WrongDepth"      -> 3
               [] st.res = "panic"           -> Pending
               [] OTHER                      -> 1,
     res |-> st.res, pos |-> st.pos, buf |-> st.buf]

\* run_demosaic with run = <a>::run: the code returned, what run returned
\* (Unset when it was not called), and the stream position and the
\* destination bytes the call leaves.
run_demosaic(a, srcNull, dstNull, depth, be, code, v, hbe, s, b) ==
    IF srcNull \/ dstNull THEN ffi_early(1, b)
    ELSE IF DepthOfCode(depth, be) = "invalid" THEN ffi_early(2, b)
    ELSE IF CfaOfCode(code) = "invalid" THEN ffi_early(1, b)
    ELSE ffi_match(demosaic("seq", a, CfaOfCode(code), DepthOfCode(depth, be),
                            v, hbe, s, 0, b))

\* The caller passes the two depth codes the interface knows or one of two
\* others, be codes 0, 1 or MaxCode, and CFA codes 0..MaxCode; its source
\* holds the frame at the raster's element size, or half of it.
InitFFI ==
    \E a \in Algs, rdp \in RasterDepths, sc \in {"exact", "half"},
       srcNull \in BOOLEAN, dstNull \in BOOLEAN,
       depth \in {0, 8, 12, 16}, be \in {0, 1, MaxCode}, code \in 0..MaxCode :
      \E side \in {MinSide(a) - 1, MinSide(a)} :
        LET len == side * side * bytes_per_pixel(rdp)
        IN  /\ cargs = [srcNull |-> srcNull, dstNull |-> dstNull,
                        depth |-> depth, be |-> be, cfa |-> code]
            /\ cret = Pending
            /\ view = RasterMut_new(side, side, rdp, len)
            /\ buf = PriorBuf(len)
            /\ hostBE = FALSE
            /\ alg = a
            /\ cfa0 = "BGGR"
            /\ bdepth = "Depth8"
            /\ stream = StreamOf(StreamLen(sc, side * side * (bytes_per_pixel(rdp) \div 3)))
            /\ mode = "seq"
            /\ pc = "start"
            /\ pos = 0
            /\ win = <<>>
            /\ yrow = 0
            /\ cfa = "BGGR"
            /\ data = <<>>
            /\ pending = {}
            /\ panicked = FALSE
            /\ result = Unset
            /\ saved = Nil
            /\ IdleCFA /\ IdleRaster /\ IdleBorder

\* The C function returns out.ret.
Returned(out) ==
    /\ cret' = out.ret
    /\ result' = out.res
    /\ pos' = out.pos
    /\ buf' = out.buf
    /\ pc' = "done"
    /\ UNCHANGED <<cfaVars, rasterVars, borderVars, view, hostBE, inputVars, cargs,
                   mode, win, yrow, cfa, data, pending, panicked, saved>>

\* bayerrs_demosaic_none, _nearest_neighbour, _linear or _cubic, as alg says.
BayerrsDemosaic ==
    /\ pc = "start"
    /\ cargs # Nil
    /\ Returned(run_demosaic(alg, cargs.srcNull, cargs.dstNull, cargs.depth,
                             cargs.be, cargs.cfa, view, hostBE, stream, buf))

NextFFI == BayerrsDemosaic

SpecFFI == InitFFI /\ [][NextFFI]_vars

(***************************************************************************)
(* Claims about the C interface (SpecFFI).                                 *)
(***************************************************************************)
\* The arguments the specification calls bad: a null source or raster
\* pointer, a depth code other than 8 and 16, a CFA code other than 0..3.
BadArguments ==
    \/ cargs.srcNull
    \/ cargs.dstNull
    \/ cargs.depth \notin {8, 16}
    \/ cargs.cfa \notin 0..3

\* C21: a C-ABI decode function returns 0 on success, 2 only when the decode
\* fails with WrongResolution, 3 only when it fails with WrongDepth, and 1
\* for every other failure: bad arguments (null source or raster pointer,
\* unsupported depth code, unsupported CFA code) and Io errors.
C21_StatusCodes ==
    (cargs # Nil /\ pc = "done") =>
        /\ BadArguments => cret = 1
        /\ cret = 0 <=> (~BadArguments /\ result = "Ok")
        /\ cret = 2 => (~BadArguments /\ result = "WrongResolution")
        /\ cret = 3 => (~BadArguments /\ result = "WrongDepth")
        /\ (~BadArguments /\ result = "Io") => cret = 1

\* What C21 says of the calls whose depth code is 8 or 16: the codes of the
\* final match of run_demosaic, and 1 for null pointers and bad CFA codes.
C21_StatusCodesKnownDepth ==
    (cargs # Nil /\ pc = "done" /\ cargs.depth \in {8, 16}) =>
        /\ BadArguments => cret = 1
        /\ cret = 0 <=> (~BadArguments /\ result = "Ok")
        /\ cret = 2 <=> (~BadArguments /\ result = "WrongResolution")
        /\ cret = 3 <=> (~BadArguments /\ result = "WrongDepth")
        /\ (~BadArguments /\ result = "Io") => cret = 1

\* A call with good pointers and an unsupported depth code has returned.
C21_UnsupportedDepthReturned ==
    /\ cargs # Nil /\ pc = "done"
    /\ ~cargs.srcNull /\ ~cargs.dstNull
    /\ cargs.depth = 12

(***************************************************************************)
(* Claims about a decode (Spec).                                           *)
(***************************************************************************)
\* C1: for every algorithm with both modes, every phase, depth and accepted
\* view, and a stream that holds the whole frame, the rayon mode leaves the
\* destination buffer byte for byte as the sequential mode left it.
C1_ModesLeaveSameBuffer ==
    (pc = "done" /\ mode = "par" /\ saved.result = "Ok") => buf = saved.buf

\* The raster is below the least size the specification states for alg.
BelowMinimum ==
    IF alg = "Cubic" THEN view.w < 4 \/ view.h < 4
    ELSE view.w < 2 \/ view.h < 2

\* C2: demosaic returns WrongResolution (no panic, no Ok) whenever the width
\* or the height is below 2 (None, NearestNeighbour, Linear) or below 4
\* (Cubic), and never returns it otherwise.
C2_WrongResolutionIffBelowMinimum ==
    /\ result = "WrongResolution" => BelowMinimum
    /\ pc = "done" => (BelowMinimum => result = "WrongResolution")

C2_Witness ==
    /\ pc = "done"
    /\ alg = "Cubic"
    /\ view.w = 3
    /\ view.h = 3
    /\ result = "WrongResolution"

\* The raster depth and the sample depth do not go together.
DepthMismatch ==
    \/ view.depth = "Depth8" /\ bdepth # "Depth8"
    \/ view.depth = "Depth16" /\ bdepth = "Depth8"

\* C3: when the resolution is accepted, demosaic returns WrongDepth exactly
\* when a Depth8 raster meets 16-bit samples or a Depth16 raster meets 8-bit
\* samples; a Depth16 raster takes both Depth16BE and Depth16LE.
C3_WrongDepthIffMismatch ==
    /\ result = "WrongDepth" => (~BelowMinimum /\ DepthMismatch)
    /\ (pc = "done" /\ ~BelowMinimum) => (DepthMismatch => result = "WrongDepth")

C3_Witness ==
    /\ pc = "done"
    /\ ~BelowMinimum
    /\ view.depth = "Depth16"
    /\ bdepth = "Depth8"
    /\ result = "WrongDepth"

\* C4: when demosaic returns WrongResolution or WrongDepth, no byte of the
\* stream has been consumed and no byte of the buffer has been modified.
C4_PreconditionErrorTouchesNothing ==
    result \in {"WrongResolution", "WrongDepth"} =>
        /\ pos = 0
        /\ buf = PriorBuf(Len(buf))

C4_Witness ==
    /\ pc = "done"
    /\ result = "WrongDepth"
    /\ Len(stream) > 0
    /\ Len(buf) > 0
    /\ pos = 0

\* The stream ends before w * h samples of depth bdepth.
StreamShort == Len(stream) < FrameBytes(view.w, view.h, bdepth)

\* C5: when the preconditions hold and the stream ends before w * h samples,
\* demosaic returns Io and never Ok, in both modes of every algorithm.
C5_ShortStreamIsIo ==
    (pc = "done" /\ ~BelowMinimum /\ ~DepthMismatch /\ StreamShort) => result = "Io"

C5_Witness ==
    /\ pc = "done"
    /\ mode = "par"
    /\ bdepth = "Depth8"
    /\ StreamShort
    /\ result = "Io"
    /\ saved.result = "Io"

(***************************************************************************)
(* Claims about whole calls (SpecCall).  The raw frame is read from the    *)
(* stream and the pixels from the buffer, through the view.                *)
(***************************************************************************)
Decoded == pc = "done" /\ result = "Ok"

\* Sample k (from 0) of a stream s at sample depth bd.
SampleAt(s, bd, k) ==
    CASE bd = "Depth8"    -> s[k + 1]
      [] bd = "Depth16BE" -> 256 * s[2 * k + 1] + s[2 * k + 2]
      [] bd = "Depth16LE" -> s[2 * k + 1] + 256 * s[2 * k + 2]

\* raw[y][x]
Raw(x, y) == SampleAt(stream, bdepth, y * view.w + x)

\* Channel k (0, 1, 2) of the pixel at column x, row y of the view.
Out(x, y, k) ==
    LET o == view.stride * (view.y + y) + bytes_per_pixel(view.depth) * (view.x + x)
    IN  IF view.depth = "Depth8" THEN buf[o + k + 1]
        ELSE IF hostBE THEN 256 * buf[o + 2 * k + 1] + buf[o + 2 * k + 2]
                       ELSE buf[o + 2 * k + 1] + 256 * buf[o + 2 * k + 2]

Cols == 0..(view.w - 1)
Rows == 0..(view.h - 1)

\* next_x^x(next_y^y(cfa)); a step taken twice is no step, so the parities
\* of x and y decide.
PhaseAt(x, y) ==
    LET py == IF y % 2 = 0 THEN cfa0 ELSE next_y(cfa0)
    IN  IF x % 2 = 0 THEN py ELSE next_x(py)

\* The colours of the 2x2 block of a phase: top-left (the site itself),
\* top-right, bottom-left, bottom-right.
BlockOf(ph) ==
    CASE ph = "BGGR" -> <<"B", "G", "G", "R">>
      [] ph = "GBRG" -> <<"G", "B", "R", "G">>
      [] ph = "GRBG" -> <<"G", "R", "B", "G">>
      [] ph = "RGGB" -> <<"R", "G", "G", "B">>

SiteColour(x, y) == BlockOf(PhaseAt(x, y))[1]

\* Output order R, G, B.
ColourOfChannel(k) == <<"R", "G", "B">>[k + 1]

\* C14: after a successful None decode every pixel holds raw[y][x] in the
\* channel of its site's colour (0 red, 1 green, 2 blue) and 0 in the other
\* two, whatever the buffer held before.
C14_NoneKeepsOwnChannelOnly ==
    Decoded /\ alg = "None" =>
        \A x \in Cols, y \in Rows, k \in 0..2 :
            Out(x, y, k) = IF ColourOfChannel(k) = SiteColour(x, y) THEN Raw(x, y) ELSE 0

C14_Witness ==
    /\ Decoded
    /\ alg = "None"
    /\ cfa0 = "GRBG"
    /\ view.w = 3
    /\ view.h = 2
    /\ Raw(2, 1) > 0
    /\ \E k \in 0..2 : Out(2, 1, k) = 0 /\ PriorBuf(Len(buf))[view.stride + 6 + k + 1] # 0

\* The channel index of the colour of the site at (x, y).
OwnChannel(x, y) == CHOOSE k \in 0..2 : ColourOfChannel(k) = SiteColour(x, y)

\* C15: decoding with None and reading back, site by site in raster order,
\* the channel of the site's colour gives the raw samples of the stream back.
C15_NoneRoundTrip ==
    Decoded /\ alg = "None" =>
        LET sb == SampleBytes(bdepth)
            back(n) == Out(n % view.w, n \div view.w, OwnChannel(n % view.w, n \div view.w))
        IN  /\ Len(stream) = view.w * view.h * sb
            /\ \A i \in 1..Len(stream) :
                  stream[i] = EncodeSample(back((i - 1) \div sb), bdepth)[((i - 1) % sb) + 1]

C15_Witness ==
    /\ Decoded
    /\ alg = "None"
    /\ bdepth = "Depth16BE"
    /\ ~hostBE
    /\ view.w = 3
    /\ view.h = 3
    /\ stream = StreamOf(18)

\* Every sample of the frame is raw[0][0].
FlatFrame == \A x \in Cols, y \in Rows : Raw(x, y) = Raw(0, 0)

\* C16: a frame whose samples all equal c decodes with NearestNeighbour,
\* Linear and Cubic to c in every channel of every pixel.
C16_FlatFieldStaysFlat ==
    Decoded /\ alg \in {"NearestNeighbour", "Linear", "Cubic"} /\ FlatFrame =>
        \A x \in Cols, y \in Rows, k \in 0..2 : Out(x, y, k) = Raw(0, 0)

C16_Witness ==
    /\ Decoded
    /\ alg = "Cubic"
    /\ bdepth = "Depth16LE"
    /\ view.w = 5
    /\ view.h = 4
    /\ FlatFrame
    /\ Raw(0, 0) = MaxValue(bdepth)

\* The frame extended past its edges by reflection about the edge sample:
\* index -k is k and index n - 1 + k is n - 1 - k.
Reflect(i, n) == IF i < 0 THEN 0 - i ELSE IF i > n - 1 THEN 2 * (n - 1) - i ELSE i

Ext(x, y) == Raw(Reflect(x, view.w), Reflect(y, view.h))

Max(a, b) == IF a > b THEN a ELSE b

\* min(MAX, floor(max(0, pos - neg) / D))
Clamped(plus, minus, D) == Min(MaxValue(bdepth), Max(0, plus - minus) \div D)

\* The sum of Ext over the offsets <<dx, dy>> of a sequence, from (x, y).
RECURSIVE Taps(_, _, _)
Taps(x, y, offs) ==
    IF offs = <<>> THEN 0
    ELSE Ext(x + Head(offs)[1], y + Head(offs)[2]) + Taps(x, y, Tail(offs))

Cross1  == <<<<0, -1>>, <<-1, 0>>, <<1, 0>>, <<0, 1>>>>
Cross3  == <<<<0, -3>>, <<-3, 0>>, <<3, 0>>, <<0, 3>>>>
Knight  == <<<<-1, -2>>, <<1, -2>>, <<-2, -1>>, <<2, -1>>,
             <<-2, 1>>, <<2, 1>>, <<-1, 2>>, <<1, 2>>>>
Diag1   == <<<<-1, -1>>, <<1, -1>>, <<-1, 1>>, <<1, 1>>>>
Diag3   == <<<<-3, -3>>, <<3, -3>>, <<-3, 3>>, <<3, 3>>>>
Far     == <<<<-1, -3>>, <<1, -3>>, <<-3, -1>>, <<3, -1>>,
             <<-3, 1>>, <<3, 1>>, <<-1, 3>>, <<1, 3>>>>
Horz1   == <<<<-1, 0>>, <<1, 0>>>>
Horz3   == <<<<-3, 0>>, <<3, 0>>>>
Vert1   == <<<<0, -1>>, <<0, 1>>>>
Vert3   == <<<<0, -3>>, <<0, 3>>>>

\* The positive taps, the negative taps and the divisor of the channel of
\* colour col at (x, y), for the interpolated channels.
CubicTerms(x, y, col) ==
    IF SiteColour(x, y) # "G"
    THEN IF col = "G"
         THEN [pos |-> 81 * Taps(x, y, Cross1) + Taps(x, y, Cross3),
               neg |-> 9 * Taps(x, y, Knight), D |-> 256]
         ELSE [pos |-> 81 * Taps(x, y, Diag1) + Taps(x, y, Diag3),
               neg |-> 9 * Taps(x, y, Far), D |-> 256]
    ELSE IF col = BlockOf(PhaseAt(x, y))[2]
         THEN [pos |-> 9 * Taps(x, y, Horz1), neg |-> Taps(x, y, Horz3), D |-> 16]
         ELSE [pos |-> 9 * Taps(x, y, Vert1), neg |-> Taps(x, y, Vert3), D |-> 16]

Interpolated(x, y, k) == ColourOfChannel(k) # SiteColour(x, y)

\* C17: every interpolated Cubic channel is min(MAX, floor(max(0, pos - neg) / D)),
\* D = 256 at colour sites and 16 at green sites: 0 when the negative taps
\* outweigh the positive ones, MAX when the quotient exceeds MAX, and always
\* in 0..MAX.
C17_CubicClamps ==
    Decoded /\ alg = "Cubic" =>
        \A x \in Cols, y \in Rows, k \in 0..2 :
            Interpolated(x, y, k) =>
                LET t == CubicTerms(x, y, ColourOfChannel(k))
                IN  /\ Out(x, y, k) = Clamped(t.pos, t.neg, t.D)
                    /\ t.neg > t.pos => Out(x, y, k) = 0
                    /\ (t.pos - t.neg) \div t.D > MaxValue(bdepth)
                          => Out(x, y, k) = MaxValue(bdepth)
                    /\ Out(x, y, k) >= 0
                    /\ Out(x, y, k) <= MaxValue(bdepth)

\* The frame of test_overflow: a channel clipped to 0 and a channel clipped
\* to MAX in one decode.
C17_Witness ==
    /\ Decoded
    /\ alg = "Cubic"
    /\ cfa0 = "RGGB"
    /\ bdepth = "Depth8"
    /\ view.w = 7
    /\ view.h = 7
    /\ Raw(3, 3) = 0
    /\ Raw(0, 0) = 255
    /\ LET t == CubicTerms(3, 3, "G") IN t.neg > t.pos /\ Out(3, 3, 1) = 0
    /\ LET t == CubicTerms(1, 1, "G")
       IN  (t.pos - t.neg) \div t.D > 255 /\ Out(1, 1, 1) = 255

\* The Linear reference: the value of the channel of colour col at (x, y).
LinearRef(x, y, col) ==
    LET N  == Ext(x, y - 1)
        S  == Ext(x, y + 1)
        W  == Ext(x - 1, y)
        E  == Ext(x + 1, y)
        NW == Ext(x - 1, y - 1)
        NE == Ext(x + 1, y - 1)
        SW == Ext(x - 1, y + 1)
        SE == Ext(x + 1, y + 1)
        horizontal == IF PhaseAt(x, y) = "GBRG" THEN "B" ELSE "R"
    IN  IF col = SiteColour(x, y) THEN Raw(x, y)
        ELSE IF SiteColour(x, y) # "G"
        THEN IF col = "G" THEN (N + S + W + E) \div 4
                          ELSE (NW + NE + SW + SE) \div 4
        ELSE IF col = horizontal THEN (W + E) \div 2
                                 ELSE (N + S) \div 2

\* C18: Linear output is the reference on the frame extended by one sample a
\* side (column -1 is column 1, column w is column w-2, rows alike): own
\* channel the sample; at a red/blue site green the floor of the mean of
\* N, S, W, E and the opposite colour that of NW, NE, SW, SE; at a green site
\* the horizontal colour (blue at GBRG, red at GRBG) that of W, E and the
\* vertical colour that of N, S.
C18_LinearMatchesReference ==
    Decoded /\ alg = "Linear" =>
        \A x \in Cols, y \in Rows, k \in 0..2 :
            Out(x, y, k) = LinearRef(x, y, ColourOfChannel(k))

C18_Witness ==
    /\ Decoded
    /\ alg = "Linear"
    /\ mode = "par"
    /\ cfa0 = "GBRG"
    /\ view.w = 3
    /\ view.h = 5
    /\ stream = StreamOf(15)

\* Column -1 is column 1; the row above row 0 is row 1.
LeftOf(x) == IF x = 0 THEN 1 ELSE x - 1
Above(y)  == IF y = 0 THEN 1 ELSE y - 1

\* The site NearestNeighbour copies the channel of colour col of (x, y) from.
NearestSite(x, y, col) ==
    IF col = SiteColour(x, y) THEN <<x, y>>
    ELSE IF SiteColour(x, y) # "G"
    THEN IF col = "G" THEN <<LeftOf(x), y>> ELSE <<LeftOf(x), Above(y)>>
    ELSE IF col = BlockOf(PhaseAt(x, y))[2] THEN <<LeftOf(x), y>>
                                            ELSE <<x, Above(y)>>

\* C19: NearestNeighbour copies, with no arithmetic: own channel the sample;
\* at a red/blue site green from the left neighbour and the opposite colour
\* from the upper-left one; at a green site the horizontal colour from the
\* left neighbour and the vertical colour from the one above; every value is
\* a raw sample of the colour of its channel.
C19_NearestNeighbourCopies ==
    Decoded /\ alg = "NearestNeighbour" =>
        \A x \in Cols, y \in Rows, k \in 0..2 :
            LET src == NearestSite(x, y, ColourOfChannel(k))
            IN  /\ Out(x, y, k) = Raw(src[1], src[2])
                /\ SiteColour(src[1], src[2]) = ColourOfChannel(k)

C19_Witness ==
    /\ Decoded
    /\ alg = "NearestNeighbour"
    /\ cfa0 = "BGGR"
    /\ bdepth = "Depth16LE"
    /\ hostBE
    /\ view.w = 3
    /\ view.h = 3
    /\ stream = StreamOf(18)

\* cubic.rs, module doc: the kernels, times 256.
green_kernel ==
    <<<<  0,   0,   0,   1,   0,   0,   0>>,
      <<  0,   0,  -9,   0,  -9,   0,   0>>,
      <<  0,  -9,   0,  81,   0,  -9,   0>>,
      <<  1,   0,  81, 256,  81,   0,   1>>,
      <<  0,  -9,   0,  81,   0,  -9,   0>>,
      <<  0,   0,  -9,   0,  -9,   0,   0>>,
      <<  0,   0,   0,   1,   0,   0,   0>>>>

red_blue_kernel ==
    <<<<  1,   0,  -9, -16,  -9,   0,   1>>,
      <<  0,   0,   0,   0,   0,   0,   0>>,
      << -9,   0,  81, 144,  81,   0,  -9>>,
      <<-16,   0, 144, 256, 144,   0, -16>>,
      << -9,   0,  81, 144,  81,   0,  -9>>,
      <<  0,   0,   0,   0,   0,   0,   0>>,
      <<  1,   0,  -9, -16,  -9,   0,   1>>>>

\* The entries of a kernel that are not 0, in reading order: <<dx, dy, weight>>.
KernelTaps(K) ==
    LET at(n) == K[(n \div 7) + 1][(n % 7) + 1]
        idx   == SelectSeq([n \in 1..49 |-> n - 1], LAMBDA n : at(n) # 0)
    IN  [i \in 1..Len(idx) |-> <<(idx[i] % 7) - 3, (idx[i] \div 7) - 3, at(idx[i])>>]

green_taps    == KernelTaps(green_kernel)
red_blue_taps == KernelTaps(red_blue_kernel)

\* A kernel laid over (x, y) of the extended frame, on the samples of colour
\* col only: the sum of the taps from the i-th on.
RECURSIVE Convolve(_, _, _, _, _)
Convolve(taps, col, x, y, i) ==
    IF i > Len(taps) THEN 0
    ELSE LET cx == Reflect(x + taps[i][1], view.w)
             cy == Reflect(y + taps[i][2], view.h)
         IN  (IF SiteColour(cx, cy) = col THEN taps[i][3] * Raw(cx, cy) ELSE 0)
             + Convolve(taps, col, x, y, i + 1)

CubicRef(x, y, col) ==
    Clamped(Convolve(IF col = "G" THEN green_taps ELSE red_blue_taps, col, x, y, 1),
            0, 256)

\* C20: the sequential Cubic output is the documented green and red/blue
\* kernels applied to the frame mirror-extended by 3 in both axes (row -k is
\* row k, row h-1+k is row h-1-k, columns alike), for every height from 4,
\* the heights 4, 5, 6 where the top and bottom windows overlap included.
C20_CubicMatchesKernels ==
    Decoded /\ alg = "Cubic" /\ mode = "seq" =>
        \A x \in Cols, y \in Rows, k \in 0..2 :
            Out(x, y, k) = CubicRef(x, y, ColourOfChannel(k))

C20_Witness ==
    /\ Decoded
    /\ alg = "Cubic"
    /\ mode = "seq"
    /\ cfa0 = "GRBG"
    /\ view.w = 5
    /\ view.h = 5
    /\ stream = StreamOf(25)
    /\ \E x \in Cols, k \in 0..2 : Out(x, 2, k) # Out(x, 3, k)

\* The stream s with the two bytes of every pair exchanged.
SwapPairs(s) ==
    [i \in 1..Len(s) |-> IF i % 2 = 1 THEN s[i + 1] ELSE s[i - 1]]

\* C22: read_exact_u16be decodes the pair (b0, b1) as 256*b0 + b1 and
\* read_exact_u16le as b0 + 256*b1; hence, for every algorithm, decoding a
\* 16-bit stream as Depth16BE leaves the raster that decoding the stream
\* with every pair swapped as Depth16LE leaves.
C22_ByteOrder ==
    (Decoded /\ bdepth = "Depth16BE") =>
        /\ \A k \in 0..(view.w * view.h - 1) :
             /\ read_exact_u16be(stream, 2 * k, 1).vals[1]
                  = 256 * stream[2 * k + 1] + stream[2 * k + 2]
             /\ read_exact_u16le(stream, 2 * k, 1).vals[1]
                  = stream[2 * k + 1] + 256 * stream[2 * k + 2]
        /\ buf = demosaic(mode, alg, cfa0, "Depth16LE", view, hostBE,
                          SwapPairs(stream), 0, PriorBuf(Len(buf))).buf

\* A Cubic decode of a big-endian stream whose first pair is not symmetric.
C22_Witness ==
    /\ Decoded /\ bdepth = "Depth16BE" /\ alg = "Cubic"
    /\ stream[1] # stream[2]
    /\ SwapPairs(stream) # stream

(***************************************************************************)
(* Claims about the reads and writes of a decode, step by step (Spec).     *)
(***************************************************************************)
\* The image rows the call has read so far.
RowsRead == pos \div (view.w * SampleBytes(bdepth))

\* C23: a successful decode of a w by h image consumes exactly w*h samples
\* from its reader, in row-major order, each image row once (edge rows are
\* reused from buffers, not read again); bytes of the stream beyond the
\* frame are left unread.  In the sequential build the newest row of the
\* window is the last row read; in the rayon build the padded buffer holds
\* the rows in stream order before any task runs.
C23_ConsumesFrameOnce ==
    /\ Decoded => /\ pos = FrameBytes(view.w, view.h, bdepth)
                  /\ pos <= Len(stream)
    /\ (pc = "rows" /\ result = Unset) =>
          /\ pos = RowsRead * view.w * SampleBytes(bdepth)
          /\ RowsRead <= view.h
          /\ RowsRead > 0 =>
               \A x \in Cols :
                  At(win[Len(win)], PaddingOf(alg) + x) = Raw(x, RowsRead - 1)
    /\ pc = "tasks" =>
          /\ pos = FrameBytes(view.w, view.h, bdepth)
          /\ \A y \in Rows, x \in Cols :
                At(data[PaddingOf(alg) + y + 1], PaddingOf(alg) + x) = Raw(x, y)

\* A Cubic decode of minimum height has returned Ok and the stream holds a
\* byte beyond the frame.
C23_Witness ==
    /\ Decoded /\ alg = "Cubic" /\ view.h = 4
    /\ Len(stream) > FrameBytes(view.w, view.h, bdepth)

\* Row r of the view is the bytes RowStart(r) + 1 .. RowEnd(r) of the buffer.
RowStart(r) == view.stride * (view.y + r) + bytes_per_pixel(view.depth) * view.x
RowEnd(r) == RowStart(r) + bytes_per_pixel(view.depth) * view.w

\* The bytes of row r of the view in the buffer b.
ViewRow(b, r) == SubSeq(b, RowStart(r) + 1, RowEnd(r))

\* The read-ahead p the specification states per algorithm.
ReadAhead ==
    CASE alg = "None" -> 0
      [] alg = "NearestNeighbour" -> 1
      [] alg = "Linear" -> 1
      [] alg = "Cubic" -> 3

\* C24: in sequential mode, at the moment output row y is written the rows
\* read so far are at most min(h, y + 1 + p), p = 0 for None, 1 for
\* NearestNeighbour and Linear, 3 for Cubic; output rows are written in
\* strictly increasing y, each exactly once.  A step of the decode writes
\* the rows yrow .. yrow' - 1 after its reads: it changes no other row, and
\* the buffer changes only in a step that advances y.
C24_StreamsRowByRow ==
    [][(mode = "seq" /\ pc \in {"debayer", "rows"}) =>
          /\ yrow' >= yrow
          /\ buf' # buf => yrow' > yrow
          /\ yrow' > yrow => RowsRead' <= Min(view.h, yrow + 1 + ReadAhead)
          /\ \A r \in Rows :
                (r < yrow \/ r >= yrow') => ViewRow(buf', r) = ViewRow(buf, r)
      ]_vars

\* The sequential Cubic loop has written a row in the middle of the image
\* while rows of the image were still unread.
C24_Witness ==
    /\ mode = "seq" /\ pc = "rows" /\ result = Unset /\ alg = "Cubic"
    /\ yrow > 1
    /\ RowsRead < view.h
    /\ ViewRow(buf, yrow - 1) # ViewRow(PriorBuf(Len(buf)), yrow - 1)

\* The chunk of par_chunks_mut that holds byte i (from 1) of the buffer.
ChunkOf(i) == (i - 1) \div view.stride

\* C25: in the rayon build no row task starts before the padded input
\* buffer is complete; from then on the input buffer is only read and each
\* row task writes only the destination row it was handed.  The write sets
\* of the tasks are disjoint, so every interleaving of the tasks ends with
\* the same raster: the one the tasks leave when run in the order of y.
C25_TasksAreIndependent ==
    /\ [](/\ (mode = "par" /\ pc \in {"start", "debayer"}) =>
                (pending = {} /\ buf = PriorBuf(Len(buf)))
          /\ pc = "tasks" =>
                /\ Len(data) = view.h + 2 * PaddingOf(alg)
                /\ \A k \in 1..Len(data) : Len(data[k]) = view.w + 2 * PaddingOf(alg)
                /\ \A i \in 1..Len(buf) :
                      ChunkOf(i) \in pending => buf[i] = PriorByte(i - 1)
          /\ (pc = "done" /\ mode = "par" /\ result = "Ok") =>
                buf = debayer_rayon(alg, cfa0, bdepth, view, hostBE, stream, 0,
                                    PriorBuf(Len(buf))).buf)
    /\ [][pc = "tasks" =>
            /\ data' = data
            /\ pending' \subseteq pending
            /\ \A i \in 1..Len(buf) :
                  buf'[i] # buf[i] => ChunkOf(i) \in pending \ pending'
         ]_vars

\* Row tasks of a Cubic decode have run out of order: the task of chunk 1
\* has stored its row and the task of chunk 0 has not started.
C25_Witness ==
    /\ pc = "tasks" /\ alg = "Cubic" /\ ~panicked
    /\ 0 \in pending /\ 1 \notin pending
    /\ \E i \in 1..Len(buf) : ChunkOf(i) = 1 /\ buf[i] # PriorByte(i - 1)

\* The stream of the decode, continued to a whole frame with bytes `fill`.
Completed(fill) ==
    [i \in 1..FrameBytes(view.w, view.h, bdepth) |->
        IF i <= Len(stream) THEN stream[i] ELSE fill]

\* The buffer a complete sequential decode of the stream s leaves.
WholeDecode(s) ==
    debayer_naive(alg, cfa0, bdepth, view, hostBE, s, 0, PriorBuf(Len(buf))).buf

\* C26: a sequential decode that aborts with an Io error on a truncated
\* stream leaves the rows it wrote before the failure as they are: each
\* holds what a complete decode of any stream with the same prefix gives
\* for that row, and the rows not reached keep their prior contents.
C26_AbortKeepsWrittenRows ==
    (pc = "done" /\ mode = "seq" /\ result = "Io") =>
        /\ \A r \in Rows :
              r < yrow => /\ ViewRow(buf, r) = ViewRow(WholeDecode(Completed(0)), r)
                          /\ ViewRow(buf, r) = ViewRow(WholeDecode(Completed(255)), r)
        /\ \A i \in 1..Len(buf) :
              \/ \E r \in Rows : r < yrow /\ i > RowStart(r) /\ i <= RowEnd(r)
              \/ buf[i] = PriorByte(i - 1)

\* A sequential Cubic decode has failed on its last row after writing rows.
C26_Witness ==
    /\ pc = "done" /\ mode = "seq" /\ result = "Io" /\ alg = "Cubic"
    /\ yrow >= 2
    /\ ViewRow(buf, 1) # ViewRow(PriorBuf(Len(buf)), 1)

\* Byte i (from 1) of the buffer lies in a row of the view.
InView(i) == \E r \in Rows : i > RowStart(r) /\ i <= RowEnd(r)

\* C27: a decode into a view (x0, y0, w, h, stride s, bpp) modifies only
\* bytes in [s*(y0+r) + bpp*x0, s*(y0+r) + bpp*(x0+w)) for 0 <= r < h; every
\* other byte of the buffer keeps its prior value, for every algorithm and
\* execution mode.
C27_OnlyViewBytesChange ==
    \A i \in 1..Len(buf) : buf[i] # PriorByte(i - 1) => InView(i)

\* What C27 says of the sequential build alone.
C27_SequentialStaysInView ==
    mode = "seq" => \A i \in 1..Len(buf) : buf[i] # PriorByte(i - 1) => InView(i)

\* A sequential decode into a view with an origin and slack has returned Ok.
C27_SequentialWitness ==
    /\ Decoded /\ mode = "seq"
    /\ view.x > 0
    /\ buf # PriorBuf(Len(buf))

\* C28: for every view the constructor accepts (any offset, stride and
\* buffer length) and every algorithm, depth, phase and stream, demosaic
\* ends with Ok or Err: no assertion failure, no index out of range, no
\* unsigned underflow, in either build.
C28_NeverPanics ==
    /\ result # "panic"
    /\ ~panicked

\* What C28 says of the sequential build alone.
C28_SequentialNeverPanics ==
    mode = "seq" => (result # "panic" /\ ~panicked)

\* A sequential Cubic decode into a view with an origin below the top of a
\* buffer has returned Ok.
C28_SequentialWitness ==
    /\ Decoded /\ mode = "seq" /\ alg = "Cubic"
    /\ view.y > 0

(***************************************************************************)
(* Claims about the arithmetic and the symmetry of whole calls (SpecCall). *)
(***************************************************************************)
\* The largest intermediate sum the specification states for an algorithm.
SumBound == IF alg = "Cubic" THEN 328 * 65535 ELSE 4 * 65535

\* The u32 value v is narrowed with `as $T` without loss.
FitsChannel(v) == v <= MaxValue(bdepth) /\ AsT(v, bdepth) = v

\* The phase of the first site of row y.
RowPhase(y) == IF y % 2 = 0 THEN cfa0 ELSE next_y(cfa0)

\* Column x, row y of the decoded raster holds v in channel k.
Holds(x, y, k, v) == FitsChannel(v) /\ Out(x, y, k) = v

\* C29 at the Linear site (x, y), whose kernel reads the rows wn.
C29_AtLinear(wn, x, y) ==
    LET sums == linear_sums(wn[1], wn[2], wn[3], x + 1)
        st   == SiteAt(RowPhase(y), x)
    IN  /\ \A f \in {sums.g, sums.d, sums.h, sums.v} : f <= SumBound
        /\ FitsChannel(sums.g \div 4) /\ FitsChannel(sums.d \div 4)
        /\ FitsChannel(sums.h \div 2) /\ FitsChannel(sums.v \div 2)
        /\ IF st.kind = "c"
           THEN /\ Holds(x, y, 1, sums.g \div 4)
                /\ Holds(x, y, DiagChan(st.cfa), sums.d \div 4)
           ELSE /\ Holds(x, y, HorzChan(st.cfa), sums.h \div 2)
                /\ Holds(x, y, VertChan(st.cfa), sums.v \div 2)

\* C29 at the Cubic site (x, y), whose kernel reads the rows wn.
C29_AtCubic(wn, x, y) ==
    LET g  == cubic_g_sums(wn, x + 3)
        d  == cubic_d_sums(wn, x + 3)
        h  == cubic_h_sums(wn, x + 3)
        v  == cubic_v_sums(wn, x + 3)
        st == SiteAt(RowPhase(y), x)
    IN  /\ \A f \in {g.pos, g.neg, d.pos, d.neg, h.pos, h.neg, v.pos, v.neg} :
              f <= SumBound
        /\ FitsChannel(clamped(g, 256, bdepth)) /\ FitsChannel(clamped(d, 256, bdepth))
        /\ FitsChannel(clamped(h, 16, bdepth)) /\ FitsChannel(clamped(v, 16, bdepth))
        /\ IF st.kind = "c"
           THEN /\ Holds(x, y, 1, clamped(g, 256, bdepth))
                /\ Holds(x, y, DiagChan(st.cfa), clamped(d, 256, bdepth))
           ELSE /\ Holds(x, y, HorzChan(st.cfa), clamped(h, 16, bdepth))
                /\ Holds(x, y, VertChan(st.cfa), clamped(v, 16, bdepth))

\* C29: for all 8-bit and 16-bit samples every intermediate sum of the
\* Linear and Cubic kernels (at most 4*65535 and 328*65535) fits the 32-bit
\* unsigned accumulator without wrapping (the bound is below 2^31), and
\* every value narrowed to the channel type is at most the channel maximum,
\* so that the cast drops no bits and the raster holds the value itself.
C29_NoWrapNoTruncation ==
    (Decoded /\ alg \in {"Linear", "Cubic"}) =>
        LET padded == par_read(alg, bdepth, view, stream, 0).data
        IN  /\ SumBound <= 2147483647
            /\ \A y \in Rows, x \in Cols :
                  IF alg = "Linear"
                  THEN C29_AtLinear(SubSeq(padded, y + 1, y + 3), x, y)
                  ELSE C29_AtCubic(SubSeq(padded, y + 1, y + 7), x, y)

\* A Cubic decode of a 16-bit frame at full scale: g_pos reaches 328*65535.
C29_Witness ==
    /\ Decoded /\ alg = "Cubic" /\ bdepth # "Depth8"
    /\ cubic_g_sums(SubSeq(par_read(alg, bdepth, view, stream, 0).data, 1, 7), 3).pos
          = 328 * 65535

\* The phase with red and blue exchanged.
RedBlueSwapped(c) ==
    CASE c = "BGGR" -> "RGGB"
      [] c = "RGGB" -> "BGGR"
      [] c = "GBRG" -> "GRBG"
      [] c = "GRBG" -> "GBRG"

\* Channel k of the pixel at column x, row y of the view, in the buffer b.
ChannelIn(b, x, y, k) ==
    LET o == RowStart(y) + bytes_per_pixel(view.depth) * x
    IN  IF view.depth = "Depth8" THEN b[o + k + 1]
        ELSE IF hostBE THEN 256 * b[o + 2 * k + 1] + b[o + 2 * k + 2]
                       ELSE b[o + 2 * k + 1] + 256 * b[o + 2 * k + 2]

\* C30: for every algorithm, size, depth and raw frame, decoding with BGGR
\* gives the raster decoding with RGGB gives with channels 0 and 2 of every
\* pixel exchanged, and GBRG the raster of GRBG with channels 0 and 2
\* exchanged; the green channel is the same in both.
C30_RedBlueSymmetry ==
    Decoded =>
        LET other == demosaic(mode, alg, RedBlueSwapped(cfa0), bdepth, view, hostBE,
                              stream, 0, PriorBuf(Len(buf))).buf
        IN  \A y \in Rows, x \in Cols :
               /\ ChannelIn(buf, x, y, 0) = ChannelIn(other, x, y, 2)
               /\ ChannelIn(buf, x, y, 1) = ChannelIn(other, x, y, 1)
               /\ ChannelIn(buf, x, y, 2) = ChannelIn(other, x, y, 0)

\* A Cubic decode with GBRG has left a pixel whose red and blue differ.
C30_Witness ==
    /\ Decoded /\ alg = "Cubic" /\ cfa0 = "GBRG"
    /\ \E y \in Rows, x \in Cols : ChannelIn(buf, x, y, 0) # ChannelIn(buf, x, y, 2)

(***************************************************************************)
(* Claims about the border readers (SpecBorder).                           *)
(***************************************************************************)
\* raw[k] of the line read, and dst[j] of the row.
RawOfLine(k) == SampleAt(binput.stream, binput.depth, k)
DstCell(j) == row[j + 1]

\* C11: a successful read_line of BorderReplicate (w >= 2) or BorderMirror
\* (w > p) into a row of w + 2p cells consumes exactly w samples, leaves
\* dst[p .. p+w) equal to them in order, writes every cell of both borders
\* and touches no index outside the row.
C11_ReadLineFillsRow ==
    rres = "Ok" =>
        LET w == binput.width
            p == binput.padding
        IN  /\ rpos = w * SampleBytes(binput.depth)
            /\ Len(row) = w + 2 * p
            /\ \A k \in 0..(w - 1) : DstCell(p + k) = RawOfLine(k)
            /\ \A j \in 0..(w + 2 * p - 1) : DstCell(j) # Stale

C11_Witness ==
    /\ rres = "Ok"
    /\ binput.kind = "replicate"
    /\ binput.padding = 3
    /\ binput.width = 3
    /\ binput.depth = "Depth16LE"

\* C12: BorderReplicate with w >= 2 and padding p: the left cell i < p is
\* raw[(p - i) mod 2], the right cell p + w + k (k < p) is raw[w - 2 + (k mod 2)],
\* each in a column of the parity of the sample it copies; new with w < 2 fails.
C12_ReplicatePattern ==
    LET w == binput.width
        p == binput.padding
    IN  binput # Nil /\ binput.kind = "replicate" =>
          /\ (border # Nil /\ w < 2) => border = Panic
          /\ rres = "Ok" =>
               /\ w >= 2
               /\ \A i \in 0..(p - 1) :
                     /\ DstCell(i) = RawOfLine((p - i) % 2)
                     /\ (p + ((p - i) % 2)) % 2 = i % 2
               /\ \A k \in 0..(p - 1) :
                     /\ DstCell(p + w + k) = RawOfLine(w - 2 + (k % 2))
                     /\ (p + w - 2 + (k % 2)) % 2 = (p + w + k) % 2

C12_Witness ==
    /\ rres = "Ok"
    /\ binput.kind = "replicate"
    /\ binput.padding = 3
    /\ binput.width = 5
    /\ binput.depth = "Depth8"

\* C13: BorderMirror with w > p: the left cell k before the first sample
\* (1 <= k <= p) is raw[k], the right cell k after the last is raw[w - 1 - k],
\* each in a column of the parity of its source; new with w <= p fails.
C13_MirrorPattern ==
    LET w == binput.width
        p == binput.padding
    IN  binput # Nil /\ binput.kind = "mirror" =>
          /\ (border # Nil /\ w <= p) => border = Panic
          /\ rres = "Ok" =>
               /\ w > p
               /\ \A k \in 1..p :
                     /\ DstCell(p - k) = RawOfLine(k)
                     /\ DstCell(p + w - 1 + k) = RawOfLine(w - 1 - k)
                     /\ (p - k) % 2 = (p + k) % 2
                     /\ (p + w - 1 + k) % 2 = (p + w - 1 - k) % 2

C13_Witness ==
    /\ rres = "Ok"
    /\ binput.kind = "mirror"
    /\ binput.padding = 3
    /\ binput.width = 4
    /\ binput.depth = "Depth16BE"

(***************************************************************************)
(* Claims about the raster (SpecRaster).                                   *)
(***************************************************************************)
\* The five conditions of the data model, over the unbounded integers.
Admissible(x, y, w, h, stride, depth, len) ==
    /\ w > 0
    /\ h > 0
    /\ (x + w) * bytes_per_pixel(depth) <= stride
    /\ stride % bytes_per_pixel(depth) = 0
    /\ stride * (y + h) <= len

\* C6: a constructor call yields a view exactly when w > 0, h > 0,
\* (x+w)*bpp <= stride, stride % bpp = 0 and stride*(y+h) <= buf.len(); the
\* view then has the fields it was asked for, so every view satisfies the
\* five conditions; new(w, h, ..) is with_offset(0, 0, w, h, w*bpp, ..).
C6_ViewIffAdmissible ==
    /\ ctor # Nil =>
          /\ IsView(view) <=> Admissible(ctor.x, ctor.y, ctor.w, ctor.h,
                                         ctor.stride, ctor.depth, Len(buf))
          /\ ~IsView(view) => view = Panic
          /\ IsView(view) => view = ctor
    /\ IsView(view) => Admissible(view.x, view.y, view.w, view.h,
                                  view.stride, view.depth, Len(buf))

C6_Witness ==
    /\ IsView(view)
    /\ view.x > 0 /\ view.y > 0
    /\ view.stride > (view.x + view.w) * bytes_per_pixel(view.depth)

\* A bound of the constructor call c that does not fit the machine word.
ExceedsWord(c) ==
    LET bpp == bytes_per_pixel(c.depth)
    IN  \/ c.x + c.w > UsizeMax
        \/ c.y + c.h > UsizeMax
        \/ (c.x + c.w) * bpp > UsizeMax
        \/ c.w * bpp > UsizeMax
        \/ c.stride * (c.y + c.h) > UsizeMax

\* C7: when x+w, y+h, (x+w)*bpp, w*bpp or stride*(y+h) exceeds the machine
\* word, construction fails: no view is built from a wrapped bound.
C7_OverflowFails ==
    (ctor # Nil /\ ExceedsWord(ctor)) => view = Panic

\* 3 * WrapSide wraps to a number below the stride, and the call is refused.
C7_Witness ==
    /\ ctor # Nil
    /\ ctor.x = 0 /\ ctor.y = 0 /\ ctor.w = WrapSide /\ ctor.h = 1
    /\ ctor.depth = "Depth8" /\ ctor.stride = 3 /\ Len(buf) >= 3
    /\ (ctor.w * 3) % (UsizeMax + 1) <= ctor.stride
    /\ view = Panic

\* The bytes the claim says row y of the view covers: [RowLo, RowHi).
RowLo(v, y) == v.stride * (v.y + y) + bytes_per_pixel(v.depth) * v.x
RowHi(v, y) == v.stride * (v.y + y) + bytes_per_pixel(v.depth) * (v.x + v.w)

C8_Borrow ==
    slice # Nil =>
        LET fits == /\ slice.row < view.h
                    /\ slice.width = (IF view.depth = "Depth8" THEN 1 ELSE 2)
        IN  /\ slice.got # Panic <=> fits
            /\ fits => /\ slice.got.n = 3 * view.w
                       /\ slice.got.start = RowLo(view, slice.row)
                       /\ slice.got.start + slice.got.n * slice.width
                              = RowHi(view, slice.row)

C8_Write ==
    nwrites' # nwrites =>
        LET lo == RowLo(view, slice.row)
            hi == RowHi(view, slice.row)
        IN  /\ hi <= Len(buf)
            /\ \A o \in 1..Len(buf) : buf'[o] # buf[o] => (lo <= o - 1 /\ o - 1 < hi)
            /\ \E k \in 0..(3 * view.w - 1) :
                  LET e == ElemValue(k, slice.width)
                  IN  IF slice.width = 1
                      THEN buf'[lo + k + 1] = e
                      ELSE <<buf'[lo + 2 * k + 1], buf'[lo + 2 * k + 2]>>
                               = NativeBytes(e, hostBE)

\* C8: a row y < h borrowed with the channel width of the view's depth is
\* 3*w elements over buffer bytes [stride*(y0+y) + bpp*x0,
\* stride*(y0+y) + bpp*(x0+w)), and a store through it changes those bytes
\* and no others; a borrow with y >= h or the wrong width fails.
C8_RowAliasesBuffer == [](C8_Borrow) /\ [][C8_Write]_vars

C8_Witness ==
    /\ nwrites = 1
    /\ slice # Nil
    /\ slice.got # Panic
    /\ slice.width = 2
    /\ view.x > 0 /\ view.y > 0 /\ slice.row > 0
    /\ buf # PriorBuf(Len(buf))

(***************************************************************************)
(* Claims about the CFA phases (SpecCFA).                                  *)
(***************************************************************************)
\* C9: two steps right, or two steps down, give back the phase they started
\* from; a single step never leaves the phase where it was; next_x and next_y
\* are permutations of the four phases.
C9_StepTwiceIsIdentity ==
    /\ \A i \in 1..(Len(steps) - 1) :
          steps[i] = steps[i + 1] => trail[i + 2] = trail[i]
    /\ \A i \in 1..Len(steps) : trail[i + 1] # trail[i] /\ trail[i + 1] \in CFASet
    /\ {next_x(p) : p \in CFASet} = CFASet
    /\ {next_y(p) : p \in CFASet} = CFASet

C9_Witness ==
    /\ Len(steps) >= 4
    /\ steps[1] = "x" /\ steps[2] = "x" /\ steps[3] = "y" /\ steps[4] = "y"
    /\ phase0 = "GRBG"
    /\ trail[3] = phase0 /\ trail[5] = phase0

\* The diagonal opposite of a phase, as the data model gives it.
Opposite(p) ==
    CASE p = "BGGR" -> "RGGB"
      [] p = "RGGB" -> "BGGR"
      [] p = "GBRG" -> "GRBG"
      [] p = "GRBG" -> "GBRG"

\* C10: the phases reached from any start by steps right and down are all
\* four; a step right then a step down ends where a step down then a step
\* right ends, at the diagonal opposite.
C10_StepsCommuteToOpposite ==
    /\ \A i \in 1..(Len(steps) - 1) :
          steps[i] # steps[i + 1] =>
              /\ trail[i + 2] = Opposite(trail[i])
              /\ steps[i] = "x" => trail[i + 2] = next_x(next_y(trail[i]))
              /\ steps[i] = "y" => trail[i + 2] = next_y(next_x(trail[i]))
    /\ {phase0, next_x(phase0), next_y(phase0), next_y(next_x(phase0))} = CFASet

C10_Witness ==
    /\ steps = <<"x", "y", "y", "x">>
    /\ phase0 = "BGGR"
    /\ trail[3] = "RGGB"
    /\ trail[5] = "BGGR"

====
